---------------------------- MODULE Spec2Model ----------------------------
(***************************************************************************)
(* A model of the airspace file parser of XCSoar,                          *)
(* src/src/Airspace/AirspaceParser.cpp: the file driver                    *)
(* AirspaceParser::Parse, the two dialect line parsers ParseLine (OpenAir) *)
(* and ParseLineTNP (TNP), and the coordinate, altitude and arc helpers    *)
(* they call.                                                              *)
(*                                                                         *)
(* Text.  A C string is a pair (b, p): b is the memory the line reader     *)
(* handed out, a TLA+ string in which the character "$" stands for the     *)
(* terminator '\0', and p is a 1-based index into it.  Memory past the end *)
(* of b reads as terminators.  The null pointer is the index 0.            *)
(*                                                                         *)
(* Numbers.  A value of type fixed or double is an integer number of       *)
(* hundredths: 7.5 is 750, one degree of bearing is 100.  An angle of a    *)
(* GeoPoint is held in whole arc seconds (1/3600 degree): degrees +        *)
(* minutes/60 + seconds/3600 keeps its whole seconds.                      *)
(*                                                                         *)
(* Style.  A local of the C++ code that is read more than once is the      *)
(* parameter of a local operator, applied once to the local's value.       *)
(***************************************************************************)
EXTENDS Integers, Sequences, FiniteSets, TLC

(***************************************************************************)
(* Bounds of the model.                                                    *)
(***************************************************************************)
\* the number of physical lines the line reader delivers at most
MaxLines == 4

(***************************************************************************)
(* Characters and C strings.                                               *)
(***************************************************************************)
NUL == "$"

At(b, p) == IF p >= 1 /\ p <= Len(b) THEN SubSeq(b, p, p) ELSE NUL

Digits == "0123456789"

LowerCase == "abcdefghijklmnopqrstuvwxyz"

UpperCase == "ABCDEFGHIJKLMNOPQRSTUVWXYZ"

\* the index of character c in string s, 0 when it is not there
IndexIn(s, c) ==
  IF \E i \in 1..Len(s) : SubSeq(s, i, i) = c
  THEN CHOOSE i \in 1..Len(s) : SubSeq(s, i, i) = c
  ELSE 0

DigitSet == {SubSeq(Digits, i, i) : i \in 1..Len(Digits)}

IsDigit(c) == c \in DigitSet

DigitVal(c) == IndexIn(Digits, c) - 1

UpperOf ==
  [c \in {SubSeq(LowerCase, i, i) : i \in 1..Len(LowerCase)} |->
     SubSeq(UpperCase, IndexIn(LowerCase, c), IndexIn(LowerCase, c))]

ToUpper(c) == IF c \in DOMAIN UpperOf THEN UpperOf[c] ELSE c

string_is_empty(b, p) == At(b, p) = NUL

\* the C string that starts at p: the characters before the next terminator
RECURSIVE StrEnd(_, _)
StrEnd(b, p) == IF At(b, p) = NUL THEN p ELSE StrEnd(b, p + 1)

CStr(b, p) == SubSeq(b, p, StrEnd(b, p) - 1)

\* string_after_prefix: the index after the prefix, or 0 (NULL)
string_after_prefix(b, p, prefix) ==
  IF \A i \in 1..Len(prefix) : At(b, p + i - 1) = SubSeq(prefix, i, i)
  THEN p + Len(prefix) ELSE 0

string_after_prefix_ci(b, p, prefix) ==
  IF \A i \in 1..Len(prefix) :
       ToUpper(At(b, p + i - 1)) = ToUpper(SubSeq(prefix, i, i))
  THEN p + Len(prefix) ELSE 0

\* _tcsnicmp(p, s, Len(s)) == 0
tcsnicmp0(b, p, s) == string_after_prefix_ci(b, p, s) # 0

\* _tcsicmp(p, s) == 0
tcsicmp0(b, p, s) ==
  /\ string_after_prefix_ci(b, p, s) # 0
  /\ At(b, p + Len(s)) = NUL

\* _tcschr / _tcsstr with a one-character needle: its first index in the
\* C string at p, or 0 (NULL)
RECURSIVE tcschr(_, _, _)
tcschr(b, p, c) ==
  IF At(b, p) = NUL THEN 0
  ELSE IF At(b, p) = c THEN p
  ELSE tcschr(b, p + 1, c)

(***************************************************************************)
(* _tcstod and _tcstol of the C library: leading spaces, an optional sign, *)
(* decimal digits, and for _tcstod an optional fraction.  The result is    *)
(* the value and the end pointer; when no digit is found the value is 0    *)
(* and the end pointer is the start pointer.  (Exponents, hexadecimal      *)
(* digits, "inf" and "nan" occur in no line of the model.)                 *)
(***************************************************************************)
RECURSIVE SkipSpaces(_, _)
SkipSpaces(b, p) == IF At(b, p) = " " THEN SkipSpaces(b, p + 1) ELSE p

RECURSIVE DigitsEnd(_, _)
DigitsEnd(b, p) == IF IsDigit(At(b, p)) THEN DigitsEnd(b, p + 1) ELSE p

\* the value of the digits b[p..e-1]
RECURSIVE DigitsVal(_, _, _)
DigitsVal(b, p, e) ==
  IF e <= p THEN 0
  ELSE DigitsVal(b, p, e - 1) * 10 + DigitVal(At(b, e - 1))

Negate(neg, v) == IF neg THEN -v ELSE v

\* the position after an optional sign at q
AfterSign(b, q) == IF At(b, q) \in {"-", "+"} THEN q + 1 ELSE q

tcstol(b, p) ==
  LET \* d: the first digit's position; e: the position after the digits
      Number(neg, d, e) ==
        IF e = d THEN [val |-> 0, end |-> p]
        ELSE [val |-> Negate(neg, DigitsVal(b, d, e)), end |-> e]
      Digs(neg, d) == Number(neg, d, DigitsEnd(b, d))
      Signed(q) == Digs(At(b, q) = "-", AfterSign(b, q))
  IN Signed(SkipSpaces(b, p))

tcstod(b, p) ==
  LET \* d: the first digit's position; e: after the integer digits;
      \* f: after the fraction.  The value is in hundredths: the integer
      \* part and the first two fraction digits.
      Number(neg, d, e, f) ==
        IF e = d /\ f <= e + 1 THEN [val |-> 0, end |-> p]
        ELSE [val |-> Negate(neg,
                DigitsVal(b, d, e) * 100
                + (IF f > e + 1 THEN DigitVal(At(b, e + 1)) * 10 ELSE 0)
                + (IF f > e + 2 THEN DigitVal(At(b, e + 2)) ELSE 0)),
              end |-> f]
      Frac(neg, d, e) ==
        Number(neg, d, e, IF At(b, e) = "." THEN DigitsEnd(b, e + 1) ELSE e)
      Digs(neg, d) == Frac(neg, d, DigitsEnd(b, d))
      Signed(q) == Digs(At(b, q) = "-", AfterSign(b, q))
  IN Signed(SkipSpaces(b, p))

(***************************************************************************)
(* Units::ToSysUnit and Units::ToUserUnit, on hundredths.                  *)
(***************************************************************************)
\* feet to metres: x * 0.3048, split so that the product stays within the
\* integers of TLC
ToSysUnit_Feet(x) ==
  (x \div 10000) * 3048 + ((x % 10000) * 3048) \div 10000

\* nautical miles to metres
ToSysUnit_NauticalMiles(x) == x * 1852

\* metres to flight level (hundreds of feet)
ToUserUnit_FlightLevel(x) == (x * 100) \div 3048

(***************************************************************************)
(* AirspaceAltitude and ReadAltitude.                                      *)
(***************************************************************************)
\* a default-constructed AirspaceAltitude
DefaultAltitude ==
  [altitude |-> 0, flight_level |-> 0, altitude_above_terrain |-> 0,
   type |-> "UNDEFINED"]

\* lines 168-179: a run of digits goes to the field the datum selects
AltitudeNumber(Alt, fHasUnit, n) ==
  [Alt |-> IF Alt.type = "FL" THEN [Alt EXCEPT !.flight_level = n.val]
           ELSE IF Alt.type = "AGL"
             THEN [Alt EXCEPT !.altitude_above_terrain = n.val]
           ELSE [Alt EXCEPT !.altitude = n.val],
   fHasUnit |-> fHasUnit, p |-> n.end]

\* lines 180-245: the markers, at position p after the spaces
AltitudeMarker(b, p, Alt, fHasUnit) ==
  IF tcsnicmp0(b, p, "GND") THEN
    IF Alt.altitude > 0
    THEN [Alt |-> [Alt EXCEPT !.type = "AGL",
                              !.altitude_above_terrain = Alt.altitude,
                              !.altitude = 0],
          fHasUnit |-> fHasUnit, p |-> p + 3]
    ELSE [Alt |-> [Alt EXCEPT !.type = "AGL",
                              !.flight_level = 0,
                              !.altitude = 0,
                              !.altitude_above_terrain = -100],
          fHasUnit |-> TRUE, p |-> p + 3]
  ELSE IF tcsnicmp0(b, p, "SFC") THEN
    [Alt |-> [Alt EXCEPT !.type = "AGL",
                         !.flight_level = 0,
                         !.altitude = 0,
                         !.altitude_above_terrain = -100],
     fHasUnit |-> TRUE, p |-> p + 3]
  ELSE IF tcsnicmp0(b, p, "FL") THEN
    [Alt |-> [Alt EXCEPT !.type = "FL"], fHasUnit |-> TRUE, p |-> p + 2]
  ELSE IF At(b, p) \in {"F", "f"} THEN
    [Alt |-> [Alt EXCEPT !.altitude = ToSysUnit_Feet(Alt.altitude)],
     fHasUnit |-> TRUE,
     p |-> IF At(b, p + 1) \in {"T", "t"} THEN p + 2 ELSE p + 1]
  ELSE IF tcsnicmp0(b, p, "MSL") THEN
    [Alt |-> [Alt EXCEPT !.type = "MSL"], fHasUnit |-> fHasUnit, p |-> p + 3]
  ELSE IF At(b, p) \in {"M", "m"} THEN
    [Alt |-> Alt, fHasUnit |-> TRUE, p |-> p + 1]
  ELSE IF tcsnicmp0(b, p, "AGL") THEN
    [Alt |-> [Alt EXCEPT !.type = "AGL",
                         !.altitude_above_terrain = Alt.altitude,
                         !.altitude = 0],
     fHasUnit |-> fHasUnit, p |-> p + 3]
  ELSE IF tcsnicmp0(b, p, "STD") THEN
    [Alt |-> [Alt EXCEPT !.type = "FL",
                         !.flight_level = ToUserUnit_FlightLevel(Alt.altitude)],
     fHasUnit |-> fHasUnit, p |-> p + 3]
  ELSE IF tcsnicmp0(b, p, "UNL") THEN
    [Alt |-> [Alt EXCEPT !.type = "MSL",
                         !.altitude_above_terrain = -100,
                         !.altitude = 5000000],
     fHasUnit |-> fHasUnit, p |-> p + 3]
  ELSE [Alt |-> Alt, fHasUnit |-> fHasUnit, p |-> p]

\* One pass of the body of ReadAltitude's for loop, entered with scan
\* position p0 (not at a terminator): the altitude, the unit flag and the
\* position the body leaves the scan at, before the loop's own ++p.
AltitudeToken(b, p0, Alt, fHasUnit) ==
  LET Token(p) ==
        IF IsDigit(At(b, p))
        THEN AltitudeNumber(Alt, fHasUnit, tcstod(b, p))
        ELSE AltitudeMarker(b, p, Alt, fHasUnit)
  IN Token(SkipSpaces(b, p0))

\* the for loop: for (p = Text; *p != '\0'; ++p) { ... }
RECURSIVE AltitudeScan(_, _, _, _)
AltitudeScan(b, p, Alt, fHasUnit) ==
  LET Step(t) == AltitudeScan(b, t.p + 1, t.Alt, t.fHasUnit)
  IN IF At(b, p) = NUL THEN [Alt |-> Alt, fHasUnit |-> fHasUnit]
     ELSE Step(AltitudeToken(b, p, Alt, fHasUnit))

\* lines 248-257: numbers without a unit are feet; no datum means MSL
AltitudeResult(s) ==
  LET Datum(a) == IF a.type = "UNDEFINED" THEN [a EXCEPT !.type = "MSL"] ELSE a
  IN Datum(IF ~s.fHasUnit /\ s.Alt.type # "FL"
           THEN [s.Alt EXCEPT
                   !.altitude = ToSysUnit_Feet(s.Alt.altitude),
                   !.altitude_above_terrain =
                       ToSysUnit_Feet(s.Alt.altitude_above_terrain)]
           ELSE s.Alt)

ReadAltitude(b, p) ==
  AltitudeResult(AltitudeScan(b, p, DefaultAltitude, FALSE))

(***************************************************************************)
(* GeoPoint, Angle and the geometry of Math/Earth.  The geometry is planar *)
(* integer arithmetic: it stands for the spherical functions the parser    *)
(* calls, which it treats as a collaborator.                               *)
(***************************************************************************)
Abs(x) == IF x < 0 THEN -x ELSE x

\* C's integer division, which truncates toward zero
CDiv(a, d) == IF a >= 0 THEN a \div d ELSE -((-a) \div d)

ZeroPoint == [Latitude |-> 0, Longitude |-> 0]

\* GeoPoint::normalize: longitude into [-180, 180) degrees
normalize(point) ==
  [point EXCEPT !.Longitude = ((@ + 648000) % 1296000) - 648000]

\* Angle::flip on one axis of a point
FlipLatitude(point) == [point EXCEPT !.Latitude = -@]

FlipLongitude(point) == [point EXCEPT !.Longitude = -@]

\* Angle::as_bearing: into [0, 360) degrees
as_bearing(a) == a % 36000

\* Angle::magnitude_degrees
magnitude_degrees(a) == Abs(a)

\* the sine of d whole degrees in thousandths (Bhaskara's approximation)
SinMilli(d) ==
  LET Half(x, h) ==
        Negate(x > 180, (4000 * h * (180 - h)) \div (40500 - h * (180 - h)))
      Turn(x) == Half(x, IF x <= 180 THEN x ELSE x - 180)
  IN Turn(d % 360)

CosMilli(d) == SinMilli(d + 90)

\* FindLatitudeLongitude(loc, bearing, distance)
FindLatitudeLongitude(loc, bearing, distance) ==
  normalize(
    [Latitude  |-> loc.Latitude
                   + ((distance \div 100) * CosMilli(bearing \div 100)) \div 31000,
     Longitude |-> loc.Longitude
                   + ((distance \div 100) * SinMilli(bearing \div 100)) \div 31000])

\* Bearing(from, to), in [0, 360) degrees
Bearing(from, to) ==
  LET \* the angle from north toward east in the first quadrant
      East(ax, ay) ==
        IF ax = 0 /\ ay = 0 THEN 0
        ELSE IF ax <= ay THEN ((450 * ax) \div ay) * 10
        ELSE 9000 - ((450 * ay) \div ax) * 10
      Quadrant(dx, dy, east) ==
        IF dy >= 0 /\ dx >= 0 THEN east
        ELSE IF dy < 0 /\ dx >= 0 THEN 18000 - east
        ELSE IF dy < 0 /\ dx < 0 THEN 18000 + east
        ELSE 36000 - east
      Delta(dx, dy) == Quadrant(dx, dy, East(Abs(dx), Abs(dy)))
  IN as_bearing(Delta(to.Longitude - from.Longitude,
                      to.Latitude - from.Latitude))

\* Distance(from, to), in hundredths of a metre
Distance(from, to) ==
  LET Octagon(ax, ay) ==
        IF ax >= ay THEN ax + ay \div 2 ELSE ay + ax \div 2
  IN 3100 * Octagon(Abs(to.Longitude - from.Longitude),
                    Abs(to.Latitude - from.Latitude))

(***************************************************************************)
(* ReadCoords: the sexagesimal form.  The result is the success flag and   *)
(* the point as the call leaves it: the point is an output parameter, and  *)
(* what was assigned before a failure stays assigned.                      *)
(***************************************************************************)
\* the optional ":MM[:SS]" after the degrees deg, lines 274-292 and 313-331:
\* the success flag, the angle in arc seconds and the scan position
MinutesSeconds(b, deg) ==
  LET Seconds(min, sec) ==
        IF At(b, sec.end) = NUL THEN [ok |-> FALSE, deg |-> 0, Stop |-> sec.end]
        ELSE [ok |-> TRUE,
              deg |-> (deg.val * 3600 + min.val * 60 + sec.val) \div 100,
              Stop |-> sec.end]
      Minutes(min) ==
        IF At(b, min.end) = NUL THEN [ok |-> FALSE, deg |-> 0, Stop |-> min.end]
        ELSE IF At(b, min.end) # ":"
          THEN [ok |-> TRUE,
                deg |-> (deg.val * 3600 + min.val * 60) \div 100,
                Stop |-> min.end]
        ELSE Seconds(min, tcstod(b, min.end + 1))
  IN IF At(b, deg.end) # ":"
     THEN [ok |-> TRUE, deg |-> (deg.val * 3600) \div 100, Stop |-> deg.end]
     ELSE Minutes(tcstod(b, deg.end + 1))

\* the position after one optional space
AfterSpace(b, Stop) == IF At(b, Stop) = " " THEN Stop + 1 ELSE Stop

\* lines 309-345: the longitude group and its hemisphere letter
ReadLongitude(b, Text, Stop0, point) ==
  LET Hemisphere(p1, Stop) ==
        IF At(b, Stop) = NUL THEN [ok |-> FALSE, point |-> p1]
        ELSE [ok |-> TRUE,
              point |-> normalize(IF At(b, Stop) \in {"W", "w"}
                                  THEN FlipLongitude(p1) ELSE p1)]
      Group(g) ==
        IF ~g.ok THEN [ok |-> FALSE, point |-> point]
        ELSE Hemisphere([point EXCEPT !.Longitude = g.deg],
                        AfterSpace(b, g.Stop))
      Degrees(deg) ==
        IF Text = deg.end \/ At(b, deg.end) = NUL
        THEN [ok |-> FALSE, point |-> point]
        ELSE Group(MinutesSeconds(b, deg))
  IN Degrees(tcstod(b, Stop0))

ReadCoords(b, Text, point) ==
  LET Longitude(p2, Stop) ==
        IF At(b, Stop) = NUL THEN [ok |-> FALSE, point |-> p2]
        ELSE ReadLongitude(b, Text, Stop, p2)
      Hemisphere(p1, Stop) ==
        IF At(b, Stop) = NUL THEN [ok |-> FALSE, point |-> p1]
        ELSE Longitude(IF At(b, Stop) \in {"S", "s"}
                       THEN FlipLatitude(p1) ELSE p1,
                       Stop + 1)
      Group(g) ==
        IF ~g.ok THEN [ok |-> FALSE, point |-> point]
        ELSE Hemisphere([point EXCEPT !.Latitude = g.deg],
                        AfterSpace(b, g.Stop))
      Degrees(deg) ==
        IF Text = deg.end \/ At(b, deg.end) = NUL
        THEN [ok |-> FALSE, point |-> point]
        ELSE Group(MinutesSeconds(b, deg))
  IN Degrees(tcstod(b, Text))

(***************************************************************************)
(* ParseCoordsTNP: the compact form.  It always returns true.              *)
(***************************************************************************)
\* dms with the minutes taken from the whole value, degrees included
dms_NoDegrees(value) ==
  LET Sec(deg, min) ==
        [deg |-> deg, min |-> min, sec |-> value - min * 100 - deg * 10000]
      Min(deg) == Sec(deg, Abs(CDiv(value, 100)))
  IN Min(Abs(CDiv(value, 10000)))

\* lines 641-644 and 658-661: the digits to degrees, minutes, seconds
dms(value) ==
  LET Sec(deg, min) ==
        [deg |-> deg, min |-> min, sec |-> value - min * 100 - deg * 10000]
      Min(deg) == Sec(deg, Abs(CDiv(value - deg * 10000, 100)))
  IN Min(Abs(CDiv(value, 10000)))

\* Angle::dms, in arc seconds
Angle_dms(t) == t.deg * 3600 + t.min * 60 + t.sec

ParseCoordsTNP(b, Text) ==
  LET Lon(lat, ptr) ==
        normalize(
          [Latitude  |-> Negate(At(b, Text) \in {"S", "s"}, lat),
           Longitude |-> Negate(At(b, ptr) \in {"W", "w"},
                                Angle_dms(dms(tcstol(b, ptr + 1).val)))])
      Lat(n1) == Lon(Angle_dms(dms(n1.val)), AfterSpace(b, n1.end))
  IN Lat(tcstol(b, Text + 1))

(***************************************************************************)
(* TempAirspaceType: the pending record.                                   *)
(***************************************************************************)
reset(t) ==
  [t EXCEPT !.days_of_operation = "all",
            !.Radio = "",
            !.Type = "OTHER",
            !.points = << >>,
            !.Center = ZeroPoint,
            !.Rotation = 1,
            !.Radius = 0,
            !.Waiting = TRUE]

\* the constructor: default members, then reset()
NewTempAirspace ==
  reset([Waiting |-> FALSE, Name |-> "", Radio |-> "", Type |-> "OTHER",
         Base |-> DefaultAltitude, Top |-> DefaultAltitude,
         days_of_operation |-> "all", points |-> << >>,
         Center |-> ZeroPoint, Radius |-> 0, Rotation |-> 1])

AddPolygon(airspace_database, t) ==
  Append(airspace_database,
         [shape |-> "Polygon", points |-> t.points,
          Name |-> t.Name, Type |-> t.Type, Base |-> t.Base, Top |-> t.Top,
          Radio |-> t.Radio, days |-> t.days_of_operation])

AddCircle(airspace_database, t) ==
  Append(airspace_database,
         [shape |-> "Circle", Center |-> t.Center, Radius |-> t.Radius,
          Name |-> t.Name, Type |-> t.Type, Base |-> t.Base, Top |-> t.Top,
          Radio |-> t.Radio, days |-> t.days_of_operation])

(***************************************************************************)
(* The arc and sector tessellators.                                        *)
(***************************************************************************)
\* SectorLoop with one more vertex projected where the stepping stops
RECURSIVE SectorLoop_OneMore(_, _, _, _, _, _)
SectorLoop_OneMore(points, StartBearing, EndBearing, BearingStep, Center, Radius) ==
  IF magnitude_degrees(EndBearing - StartBearing) > 750
  THEN SectorLoop_OneMore(
         Append(points, FindLatitudeLongitude(Center, StartBearing, Radius)),
         as_bearing(StartBearing + BearingStep),
         EndBearing, BearingStep, Center, Radius)
  ELSE Append(points, FindLatitudeLongitude(Center, StartBearing, Radius))

\* the while loop of CalculateSector: project, append, then step
RECURSIVE SectorLoop(_, _, _, _, _, _)
SectorLoop(points, StartBearing, EndBearing, BearingStep, Center, Radius) ==
  IF magnitude_degrees(EndBearing - StartBearing) > 750
  THEN SectorLoop(
         Append(points, FindLatitudeLongitude(Center, StartBearing, Radius)),
         as_bearing(StartBearing + BearingStep),
         EndBearing, BearingStep, Center, Radius)
  ELSE points

CalculateSector(b, Text, t) ==
  LET Sector(Radius, StartBearing, EndBearing) ==
        [t EXCEPT !.points =
           Append(SectorLoop(t.points, StartBearing, EndBearing,
                             t.Rotation * 500, t.Center, Radius),
                  FindLatitudeLongitude(t.Center, EndBearing, Radius))]
      End(r, s, e) ==
        Sector(ToSysUnit_NauticalMiles(r.val), as_bearing(s.val),
               as_bearing(e.val))
      Start(r, s) == End(r, s, tcstod(b, s.end + 1))
      Rad(r) == Start(r, tcstod(b, r.end + 1))
  IN Rad(tcstod(b, Text + 2))

\* the while loop of AddArc: step, then project and append
RECURSIVE ArcLoop(_, _, _, _, _, _)
ArcLoop(points, StartBearing, EndBearing, BearingStep, Center, Radius) ==
  IF magnitude_degrees(EndBearing - StartBearing) > 750
  THEN ArcLoop(
         Append(points,
                FindLatitudeLongitude(Center,
                                      as_bearing(StartBearing + BearingStep),
                                      Radius)),
         as_bearing(StartBearing + BearingStep),
         EndBearing, BearingStep, Center, Radius)
  ELSE points

\* AddArc with the last vertex projected at the end bearing
AddArc_ProjectedEnd(Start, End, t) ==
  [t EXCEPT !.points =
     Append(ArcLoop(Append(t.points, Start),
                    Bearing(t.Center, Start), Bearing(t.Center, End),
                    t.Rotation * 500, t.Center, Distance(t.Center, Start)),
            FindLatitudeLongitude(t.Center, Bearing(t.Center, End),
                                  Distance(t.Center, Start)))]

\* lines 373-401
AddArc(Start, End, t) ==
  [t EXCEPT !.points =
     Append(ArcLoop(Append(t.points, Start),
                    Bearing(t.Center, Start), Bearing(t.Center, End),
                    t.Rotation * 500, t.Center, Distance(t.Center, Start)),
            End)]

CalculateArc(b, Text, t) ==
  LET Second(Start, End) ==
        IF ~End.ok THEN t ELSE AddArc(Start.point, End.point, t)
      AfterComma(Start, Comma) ==
        IF Comma = 0 THEN t
        ELSE Second(Start, ReadCoords(b, Comma + 1, ZeroPoint))
      First(Start) ==
        IF ~Start.ok THEN t ELSE AfterComma(Start, tcschr(b, Text, ","))
  IN First(ReadCoords(b, Text + 3, ZeroPoint))

(***************************************************************************)
(* The OpenAir line parser.                                                *)
(***************************************************************************)
airspace_class_strings ==
  << <<"R", "RESTRICT">>, <<"Q", "DANGER">>, <<"P", "PROHIBITED">>,
     <<"CTR", "CTR">>, <<"A", "CLASSA">>, <<"B", "CLASSB">>,
     <<"C", "CLASSC">>, <<"D", "CLASSD">>, <<"GP", "NOGLIDER">>,
     <<"W", "WAVE">>, <<"E", "CLASSE">>, <<"F", "CLASSF">>,
     <<"TMZ", "TMZ">>, <<"G", "CLASSG">> >>

\* the first entry of the table whose string is a prefix of the text
RECURSIVE ParseTypeFrom(_, _, _)
ParseTypeFrom(b, text, i) ==
  IF i > Len(airspace_class_strings) THEN "OTHER"
  ELSE IF string_after_prefix(b, text, airspace_class_strings[i][1]) # 0
    THEN airspace_class_strings[i][2]
  ELSE ParseTypeFrom(b, text, i + 1)

ParseType(b, text) == ParseTypeFrom(b, text, 1)

\* the value after one space; the empty value where the text ends; 0 (NULL)
\* where anything else follows
value_after_space(b, p) ==
  IF string_is_empty(b, p) THEN p
  ELSE IF At(b, p) # " " THEN 0
  ELSE p + 1

\* what a line parser hands back: its return value, the sink and the
\* pending record
Outcome(ret, db, t) == [ret |-> ret, db |-> db, temp_area |-> t]

\* the DP directive with the point put in front of the vertex list
ParseLineDP_Prepend(airspace_database, b, line, t) ==
  LET Point(TempPoint) ==
        IF ~TempPoint.ok THEN Outcome(FALSE, airspace_database, t)
        ELSE Outcome(TRUE, airspace_database,
                     [t EXCEPT !.points = <<TempPoint.point>> \o @])
      Value(value) ==
        IF value = 0 THEN Outcome(TRUE, airspace_database, t)
        ELSE Point(ReadCoords(b, value, ZeroPoint))
  IN Value(value_after_space(b, line + 2))

\* lines 468-481: DP
ParseLineDP(airspace_database, b, line, t) ==
  LET Point(TempPoint) ==
        IF ~TempPoint.ok THEN Outcome(FALSE, airspace_database, t)
        ELSE Outcome(TRUE, airspace_database,
                     [t EXCEPT !.points = Append(@, TempPoint.point)])
      Value(value) ==
        IF value = 0 THEN Outcome(TRUE, airspace_database, t)
        ELSE Point(ReadCoords(b, value, ZeroPoint))
  IN Value(value_after_space(b, line + 2))

\* the DC directive without the reset() of line 488
ParseLineDC_NoReset(airspace_database, b, line, t) ==
  LET Circle(withRadius) ==
        Outcome(TRUE, AddCircle(airspace_database, withRadius), withRadius)
  IN Circle([t EXCEPT !.Radius =
               ToSysUnit_NauticalMiles(tcstod(b, line + 2).val)])

\* lines 483-489: DC
ParseLineDC(airspace_database, b, line, t) ==
  LET Circle(withRadius) ==
        Outcome(TRUE, AddCircle(airspace_database, withRadius),
                reset(withRadius))
  IN Circle([t EXCEPT !.Radius =
               ToSysUnit_NauticalMiles(tcstod(b, line + 2).val)])

\* case 'D': the boundary directives DP, DC, DA and DB
ParseLineD(airspace_database, b, line, t) ==
  LET Second(c) ==
        IF c = "P" THEN ParseLineDP(airspace_database, b, line, t)
        ELSE IF c = "C" THEN ParseLineDC(airspace_database, b, line, t)
        ELSE IF c = "A"
          THEN Outcome(TRUE, airspace_database, CalculateSector(b, line, t))
        ELSE IF c = "B"
          THEN Outcome(TRUE, airspace_database, CalculateArc(b, line, t))
        ELSE Outcome(TRUE, airspace_database, t)
  IN Second(ToUpper(At(b, line + 1)))

\* case 'V': the centre and the rotation sign
ParseLineV(airspace_database, b, line, t) ==
  LET Centre(c) ==
        Outcome(c.ok, airspace_database, [t EXCEPT !.Center = c.point])
  IN
  IF string_after_prefix_ci(b, line + 2, "X=") # 0
    THEN Centre(ReadCoords(b, line + 4, t.Center))
  ELSE IF string_after_prefix_ci(b, line + 2, "D=-") # 0
    THEN Outcome(TRUE, airspace_database, [t EXCEPT !.Rotation = -1])
  ELSE IF string_after_prefix_ci(b, line + 2, "D=+") # 0
    THEN Outcome(TRUE, airspace_database, [t EXCEPT !.Rotation = 1])
  ELSE Outcome(TRUE, airspace_database, t)

\* lines 522-535: AC with a well-formed value
ParseLineAC(airspace_database, b, value, t) ==
  Outcome(TRUE,
          IF ~t.Waiting THEN AddPolygon(airspace_database, t)
          ELSE airspace_database,
          [reset(t) EXCEPT !.Type = ParseType(b, value), !.Waiting = FALSE])

\* case 'A': the record directives AC, AN, AL, AH and AR
ParseLineA(airspace_database, b, line, t) ==
  LET Directive(c, value) ==
        IF c \notin {"C", "N", "L", "H", "R"} \/ value = 0
          THEN Outcome(TRUE, airspace_database, t)
        ELSE IF c = "C" THEN ParseLineAC(airspace_database, b, value, t)
        ELSE Outcome(TRUE, airspace_database,
               IF c = "N" THEN [t EXCEPT !.Name = CStr(b, value)]
               ELSE IF c = "L" THEN [t EXCEPT !.Base = ReadAltitude(b, value)]
               ELSE IF c = "H" THEN [t EXCEPT !.Top = ReadAltitude(b, value)]
               ELSE [t EXCEPT !.Radio = CStr(b, value)])
  IN Directive(ToUpper(At(b, line + 1)), value_after_space(b, line + 2))

\* ParseLine: what it returns, the sink and the pending record after it
ParseLine(airspace_database, b, line, t) ==
  LET First(c) ==
        IF c = "D" THEN ParseLineD(airspace_database, b, line, t)
        ELSE IF c = "V" THEN ParseLineV(airspace_database, b, line, t)
        ELSE IF c = "A" THEN ParseLineA(airspace_database, b, line, t)
        ELSE Outcome(TRUE, airspace_database, t)
  IN First(ToUpper(At(b, line)))

(***************************************************************************)
(* The TNP line parser.                                                    *)
(***************************************************************************)
ParseClassTNP(b, text) ==
  LET Class(c) ==
        IF c = "A" THEN "CLASSA"
        ELSE IF c = "B" THEN "CLASSB"
        ELSE IF c = "C" THEN "CLASSC"
        ELSE IF c = "D" THEN "CLASSD"
        ELSE IF c = "E" THEN "CLASSE"
        ELSE IF c = "F" THEN "CLASSF"
        ELSE IF c = "G" THEN "CLASSG"
        ELSE "OTHER"
  IN Class(At(b, text))

ParseTypeTNP(b, text) ==
  IF \E w \in {"C", "CTA", "CTA/CTR"} : tcsicmp0(b, text, w) THEN "CTR"
  ELSE IF \E w \in {"R", "RESTRICTED"} : tcsicmp0(b, text, w) THEN "RESTRICT"
  ELSE IF \E w \in {"P", "PROHIBITED"} : tcsicmp0(b, text, w) THEN "RESTRICT"
  ELSE IF \E w \in {"D", "DANGER"} : tcsicmp0(b, text, w) THEN "RESTRICT"
  ELSE IF \E w \in {"G", "GSEC"} : tcsicmp0(b, text, w) THEN "WAVE"
  ELSE "OTHER"

\* the field that starts at the first space at or after p with the given
\* prefix: the index after the prefix, or 0 (NULL)
FieldAfterSpace(b, p, prefix) ==
  LET Space(sp) == IF sp = 0 THEN 0 ELSE string_after_prefix_ci(b, sp, prefix)
  IN Space(tcschr(b, p, " "))

\* the first space after the first space at or after p, or 0 (NULL)
SecondSpace(b, p) ==
  LET Space(sp) == IF sp = 0 THEN 0 ELSE tcschr(b, sp + 1, " ")
  IN Space(tcschr(b, p, " "))

\* ParseArcTNP with the arc started at the first vertex of the record
ParseArcTNP_FirstVertex(b, Text, t) ==
  LET To(from, t1, to) ==
        IF to = 0 THEN [ok |-> FALSE, temp_area |-> t1]
        ELSE [ok |-> TRUE,
              temp_area |-> AddArc(from, ParseCoordsTNP(b, to), t1)]
      Spaces(from, t1, sp3) ==
        IF sp3 = 0 THEN [ok |-> FALSE, temp_area |-> t1]
        ELSE To(from, t1, string_after_prefix_ci(b, sp3, " TO="))
      Centre(from, centre) ==
        IF centre = 0 THEN [ok |-> FALSE, temp_area |-> t]
        ELSE Spaces(from, [t EXCEPT !.Center = ParseCoordsTNP(b, centre)],
                    SecondSpace(b, centre))
  IN IF t.points = << >> THEN [ok |-> FALSE, temp_area |-> t]
     ELSE Centre(t.points[1], FieldAfterSpace(b, Text, " CENTRE="))

\* the success flag and the pending record as the call leaves it
ParseArcTNP(b, Text, t) ==
  LET To(from, t1, to) ==
        IF to = 0 THEN [ok |-> FALSE, temp_area |-> t1]
        ELSE [ok |-> TRUE,
              temp_area |-> AddArc(from, ParseCoordsTNP(b, to), t1)]
      Spaces(from, t1, sp3) ==
        IF sp3 = 0 THEN [ok |-> FALSE, temp_area |-> t1]
        ELSE To(from, t1, string_after_prefix_ci(b, sp3, " TO="))
      Centre(from, centre) ==
        IF centre = 0 THEN [ok |-> FALSE, temp_area |-> t]
        ELSE Spaces(from, [t EXCEPT !.Center = ParseCoordsTNP(b, centre)],
                    SecondSpace(b, centre))
  IN IF t.points = << >> THEN [ok |-> FALSE, temp_area |-> t]
     ELSE Centre(t.points[Len(t.points)], FieldAfterSpace(b, Text, " CENTRE="))

ParseCircleTNP(b, Text, t) ==
  LET Centre(t1, centre) ==
        IF centre = 0 THEN [ok |-> FALSE, temp_area |-> t1]
        ELSE [ok |-> TRUE,
              temp_area |-> [t1 EXCEPT !.Center = ParseCoordsTNP(b, centre)]]
      Radius(radius) ==
        IF radius = 0 THEN [ok |-> FALSE, temp_area |-> t]
        ELSE Centre([t EXCEPT !.Radius =
                       ToSysUnit_NauticalMiles(tcstod(b, radius).val)],
                    FieldAfterSpace(b, radius, " CENTRE="))
  IN Radius(string_after_prefix_ci(b, Text, "RADIUS="))

\* lines 731-738: INCLUDE= sets or clears the ignore flag
ParseInclude(b, parameter, ignore) ==
  IF tcsicmp0(b, parameter, "YES") THEN FALSE
  ELSE IF tcsicmp0(b, parameter, "NO") THEN TRUE
  ELSE ignore

\* the CIRCLE directive with the circle inserted before the result of
\* ParseCircleTNP is looked at
ParseLineCircleTNP_Eager(airspace_database, b, parameter, t) ==
  LET Circle(c) ==
        Outcome(c.ok, AddCircle(airspace_database, c.temp_area), c.temp_area)
  IN Circle(ParseCircleTNP(b, parameter, t))

\* lines 749-754: CIRCLE
ParseLineCircleTNP(airspace_database, b, parameter, t) ==
  LET Circle(c) ==
        IF ~c.ok THEN Outcome(FALSE, airspace_database, c.temp_area)
        ELSE Outcome(TRUE, AddCircle(airspace_database, c.temp_area),
                     c.temp_area)
  IN Circle(ParseCircleTNP(b, parameter, t))

\* lines 755-764: CLOCKWISE and ANTI-CLOCKWISE
ParseLineArcTNP(airspace_database, b, parameter, t, Rotation) ==
  LET Arc(a) == Outcome(a.ok, airspace_database, a.temp_area)
  IN Arc(ParseArcTNP(b, parameter, [t EXCEPT !.Rotation = Rotation]))

\* lines 767-774: TYPE=
ParseLineTypeTNP(airspace_database, b, parameter, t) ==
  Outcome(TRUE,
          IF ~t.Waiting THEN AddPolygon(airspace_database, t)
          ELSE airspace_database,
          [reset(t) EXCEPT !.Type = ParseTypeTNP(b, parameter),
                           !.Waiting = FALSE])

\* lines 784-791: ACTIVE=
ParseActiveTNP(b, parameter, days) ==
  IF tcsicmp0(b, parameter, "WEEKEND") THEN "weekend"
  ELSE IF tcsicmp0(b, parameter, "WEEKDAY") THEN "weekdays"
  ELSE IF tcsicmp0(b, parameter, "EVERYDAY") THEN "all"
  ELSE days

\* the keywords of lines 743-784, in the order the code tries them
KeywordsTNP ==
  <<"POINT=", "CIRCLE ", "CLOCKWISE ", "ANTI-CLOCKWISE ", "TITLE=", "TYPE=",
    "CLASS=", "TOPS=", "BASE=", "RADIO=", "ACTIVE=">>

\* the first keyword of KeywordsTNP from index i on that the line starts
\* with, or "" when it starts with none
RECURSIVE KeywordTNP(_, _, _)
KeywordTNP(b, line, i) ==
  IF i > Len(KeywordsTNP) THEN ""
  ELSE IF string_after_prefix_ci(b, line, KeywordsTNP[i]) # 0
    THEN KeywordsTNP[i]
  ELSE KeywordTNP(b, line, i + 1)

\* the CLASS= directive with the class applied whatever the type is
ParseLineClassTNP_Override(b, parameter, t) ==
  [t EXCEPT !.Type = ParseClassTNP(b, parameter)]

\* lines 775-777: CLASS=
ParseLineClassTNP(b, parameter, t) ==
  IF t.Type = "OTHER" THEN [t EXCEPT !.Type = ParseClassTNP(b, parameter)]
  ELSE t

\* lines 743-791: the directive of a line that is not ignored
ParseDirectiveTNP(airspace_database, b, line, t) ==
  LET Directive(k, parameter) ==
        IF k = "POINT=" THEN
          Outcome(TRUE, airspace_database,
                  [t EXCEPT !.points = Append(@, ParseCoordsTNP(b, parameter))])
        ELSE IF k = "CIRCLE " THEN
          ParseLineCircleTNP(airspace_database, b, parameter, t)
        ELSE IF k = "CLOCKWISE " THEN
          ParseLineArcTNP(airspace_database, b, parameter, t, 1)
        ELSE IF k = "ANTI-CLOCKWISE " THEN
          ParseLineArcTNP(airspace_database, b, parameter, t, -1)
        ELSE IF k = "TITLE=" THEN
          Outcome(TRUE, airspace_database,
                  [t EXCEPT !.Name = CStr(b, parameter)])
        ELSE IF k = "TYPE=" THEN
          ParseLineTypeTNP(airspace_database, b, parameter, t)
        ELSE IF k = "CLASS=" THEN
          Outcome(TRUE, airspace_database, ParseLineClassTNP(b, parameter, t))
        ELSE IF k = "TOPS=" THEN
          Outcome(TRUE, airspace_database,
                  [t EXCEPT !.Top = ReadAltitude(b, parameter)])
        ELSE IF k = "BASE=" THEN
          Outcome(TRUE, airspace_database,
                  [t EXCEPT !.Base = ReadAltitude(b, parameter)])
        ELSE IF k = "RADIO=" THEN
          Outcome(TRUE, airspace_database,
                  [t EXCEPT !.Radio = CStr(b, parameter)])
        ELSE IF k = "ACTIVE=" THEN
          Outcome(TRUE, airspace_database,
                  [t EXCEPT !.days_of_operation =
                     ParseActiveTNP(b, parameter, @)])
        ELSE Outcome(TRUE, airspace_database, t)
      Keyword(k) == Directive(k, line + Len(k))
  IN Keyword(KeywordTNP(b, line, 1))

\* ParseLineTNP with the ignore flag tested before the INCLUDE= prefix
ParseLineTNP_IgnoreFirst(airspace_database, b, line, t, ignore) ==
  LET WithIgnore(r, ign) ==
        [ret |-> r.ret, db |-> r.db, temp_area |-> r.temp_area, ignore |-> ign]
      Include(include) ==
        IF ignore
          THEN WithIgnore(Outcome(TRUE, airspace_database, t), ignore)
        ELSE IF include # 0
          THEN WithIgnore(Outcome(TRUE, airspace_database, t),
                          ParseInclude(b, include, ignore))
        ELSE WithIgnore(ParseDirectiveTNP(airspace_database, b, line, t),
                        ignore)
  IN Include(string_after_prefix_ci(b, line, "INCLUDE="))

\* ParseLineTNP: what it returns, the sink, the pending record and the
\* ignore flag after it
ParseLineTNP(airspace_database, b, line, t, ignore) ==
  LET WithIgnore(r, ign) ==
        [ret |-> r.ret, db |-> r.db, temp_area |-> r.temp_area, ignore |-> ign]
      Include(include) ==
        IF include # 0
          THEN WithIgnore(Outcome(TRUE, airspace_database, t),
                          ParseInclude(b, include, ignore))
        ELSE IF ignore
          THEN WithIgnore(Outcome(TRUE, airspace_database, t), ignore)
        ELSE WithIgnore(ParseDirectiveTNP(airspace_database, b, line, t),
                        ignore)
  IN Include(string_after_prefix_ci(b, line, "INCLUDE="))

(***************************************************************************)
(* The file driver.                                                        *)
(***************************************************************************)
\* DetectFileType without the test of what follows "AC"
DetectFileType_AnyAC(b, line) ==
  IF string_after_prefix_ci(b, line, "INCLUDE=") # 0
     \/ string_after_prefix_ci(b, line, "TYPE=") # 0
  THEN "AFT_TNP"
  ELSE IF string_after_prefix_ci(b, line, "AC") # 0 THEN "AFT_OPENAIR"
  ELSE "AFT_UNKNOWN"

DetectFileType(b, line) ==
  LET OpenAir(p) ==
        IF p # 0 /\ (string_is_empty(b, p) \/ At(b, p) = " ")
        THEN "AFT_OPENAIR" ELSE "AFT_UNKNOWN"
  IN IF string_after_prefix_ci(b, line, "INCLUDE=") # 0
        \/ string_after_prefix_ci(b, line, "TYPE=") # 0
     THEN "AFT_TNP"
     ELSE OpenAir(string_after_prefix_ci(b, line, "AC"))

\* lines 829-831: the first '*' of the line becomes a terminator
StripComment(b) ==
  LET Strip(comment) ==
        IF comment = 0 THEN b
        ELSE SubSeq(b, 1, comment - 1) \o NUL \o SubSeq(b, comment + 1, Len(b))
  IN Strip(tcschr(b, 1, "*"))

(***************************************************************************)
(* The input.  The line reader delivers physical lines; each file of the   *)
(* model draws its lines from one family.  What lies in the reader's       *)
(* memory after a line's terminator is not the parser's to know: it is one *)
(* of Residues.                                                            *)
(***************************************************************************)
Families ==
  << \* OpenAir: polygon records
     {"AC R", "AC Q", "AN T", "DP 1 N 2 E", "DP 3:30 S 4 W", "DP 5 N", ""},
     \* OpenAir: circles
     {"AC R", "V X=1 N 2 E", "V X=9", "DC 5", "DP 1 N 2 E", "AL SFC", "* c"},
     \* OpenAir: sectors, arcs and altitudes
     {"AC CTR", "V x=1 N 2 E", "V D=-", "DA 10,0,20", "DB 1 N 3 E,2 N 2 E",
      "DB 1 N 3 E", "DB 1 N 3 E,2 N", "AH FL100"},
     \* TNP: polygon records
     {"TYPE=R", "TYPE=X", "TITLE=T", "POINT=N010000 E0020000",
      "POINT=S030000 W0040000", "CLASS=A", "BASE=1500"},
     \* TNP: INCLUDE= and circles
     {"INCLUDE=NO", "INCLUDE=YES", "include=x", "TYPE=R",
      "POINT=N010000 E0020000", "CIRCLE RADIUS=5 CENTRE=N010000 E0020000",
      "CIRCLE RADIUS=5"},
     \* TNP: arcs
     {"TYPE=C", "POINT=N010000 E0020000",
      "CLOCKWISE RADIUS=1 CENTRE=N010000 E0010000 TO=N000000 E0010000",
      "ANTI-CLOCKWISE RADIUS=1 CENTRE=N010000 E0010000 TO=N020000 E0010000",
      "CLOCKWISE RADIUS=1", "ACTIVE=WEEKEND", "TOPS=UNL"},
     \* lines before the dialect is known, and lines of the other dialect
     {"XYZ", "ACX", "DP 1 N 2 E", "*AC R", "AC", "TYPE=R",
      "POINT=N010000 E0020000"}
  >>

Residues == {"", "9"}

VARIABLES
  family,       \* the family the file's lines are drawn from
  input,        \* the physical lines reader.read() has delivered so far
  pc,           \* "loop": in the for loop of Parse; "done": Parse returned
  LineCount,    \* the loop counter of Parse
  line,         \* the line of the current pass, after comment stripping
  filetype,
  ignore,
  temp_area,
  airspaces,    \* the sink, in insertion order
  ret,          \* what the line parser returned in the current pass
  warned,       \* the calls of ShowParseWarning: line number and answer
  progress,     \* the number of SetProgressPosition calls
  error,        \* the message given to SetErrorMessage
  result        \* what Parse returned

vars == <<family, input, pc, LineCount, line, filetype, ignore, temp_area,
          airspaces, ret, warned, progress, error, result>>

Init ==
  /\ family \in 1..Len(Families)
  /\ input = << >>
  /\ pc = "loop"
  /\ LineCount = 1
  /\ line = ""
  /\ filetype = "AFT_UNKNOWN"
  /\ ignore = FALSE
  /\ temp_area = NewTempAirspace
  /\ airspaces = << >>
  /\ ret = "none"
  /\ warned = << >>
  /\ progress = 0
  /\ error = ""
  /\ result = "none"

\* the loop of line 827 is running and the reader has a line to deliver
CanRead == pc = "loop" /\ LineCount <= MaxLines

\* lines 854-857 and the loop's LineCount++
NextPass ==
  /\ progress' = IF LineCount % 256 = 0 THEN progress + 1 ELSE progress
  /\ LineCount' = LineCount + 1
  /\ pc' = "loop"
  /\ UNCHANGED <<error, result>>

\* AfterLine with the warning given the 0-based number of the line
AfterLine_ZeroBased(ok) ==
  IF ok THEN NextPass /\ UNCHANGED warned
  ELSE \E continue \in BOOLEAN :
         /\ warned' = Append(warned, [line |-> LineCount - 1,
                                      continue |-> continue])
         /\ IF continue THEN NextPass
            ELSE /\ pc' = "done"
                 /\ result' = "false"
                 /\ UNCHANGED <<LineCount, progress, error>>

\* lines 845-847 and 850-852: a failed line asks ShowParseWarning, whose
\* answer is continue (IDOK) or abort
AfterLine(ok) ==
  IF ok THEN NextPass /\ UNCHANGED warned
  ELSE \E continue \in BOOLEAN :
         /\ warned' = Append(warned, [line |-> LineCount,
                                      continue |-> continue])
         /\ IF continue THEN NextPass
            ELSE /\ pc' = "done"
                 /\ result' = "false"
                 /\ UNCHANGED <<LineCount, progress, error>>

\* lines 834-835 and 837-841: the pass ends at a continue statement
Continue(l) ==
  /\ input' = Append(input, l)
  /\ line' = StripComment(l)
  /\ LineCount' = LineCount + 1
  /\ ret' = "none"
  /\ UNCHANGED <<family, pc, filetype, ignore, temp_area, airspaces, warned,
                 progress, error, result>>

\* lines 834-835: an empty line is skipped
BlankLine ==
  /\ CanRead
  /\ \E l \in Families[family] :
       /\ string_is_empty(StripComment(l), 1)
       /\ Continue(l)

\* lines 837-841: no dialect yet, and the line shows none
UndetectedLine ==
  /\ CanRead
  /\ filetype = "AFT_UNKNOWN"
  /\ \E l \in Families[family] :
       /\ ~string_is_empty(StripComment(l), 1)
       /\ DetectFileType(StripComment(l), 1) = "AFT_UNKNOWN"
       /\ Continue(l)

\* FileTypeFor with the dialect detected again on every line that shows one
FileTypeFor_Redetect(b) ==
  IF DetectFileType(b, 1) # "AFT_UNKNOWN" THEN DetectFileType(b, 1)
  ELSE filetype

\* the dialect of the pass: detected now, or detected before
FileTypeFor(b) ==
  IF filetype = "AFT_UNKNOWN" THEN DetectFileType(b, 1) ELSE filetype

\* OpenAirPass with the line that shows the dialect skipped, not parsed
OpenAirPass_DetectOnly(r) ==
  /\ filetype' = "AFT_OPENAIR"
  /\ airspaces' = IF filetype = "AFT_UNKNOWN" THEN airspaces ELSE r.db
  /\ temp_area' = IF filetype = "AFT_UNKNOWN" THEN temp_area ELSE r.temp_area
  /\ ret' = IF filetype = "AFT_UNKNOWN" THEN "none"
            ELSE IF r.ret THEN "true" ELSE "false"
  /\ AfterLine(filetype = "AFT_UNKNOWN" \/ r.ret)
  /\ UNCHANGED <<family, ignore>>

\* lines 844-847, with the outcome r of ParseLine
OpenAirPass(r) ==
  /\ filetype' = "AFT_OPENAIR"
  /\ airspaces' = r.db
  /\ temp_area' = r.temp_area
  /\ ret' = IF r.ret THEN "true" ELSE "false"
  /\ AfterLine(r.ret)
  /\ UNCHANGED <<family, ignore>>

\* a line l of an OpenAir file; b is the memory the stripped line starts
OpenAirRead(l, b) ==
  /\ ~string_is_empty(b, 1)
  /\ FileTypeFor(b) = "AFT_OPENAIR"
  /\ input' = Append(input, l)
  /\ line' = StripComment(l)
  /\ OpenAirPass(ParseLine(airspaces, b, 1, temp_area))

OpenAirLine ==
  /\ CanRead
  /\ \E l \in Families[family], residue \in Residues :
       OpenAirRead(l, StripComment(l) \o NUL \o residue)

\* lines 849-852, with the outcome r of ParseLineTNP
TNPPass(r) ==
  /\ filetype' = "AFT_TNP"
  /\ airspaces' = r.db
  /\ temp_area' = r.temp_area
  /\ ignore' = r.ignore
  /\ ret' = IF r.ret THEN "true" ELSE "false"
  /\ AfterLine(r.ret)
  /\ UNCHANGED family

TNPRead(l, b) ==
  /\ ~string_is_empty(b, 1)
  /\ FileTypeFor(b) = "AFT_TNP"
  /\ input' = Append(input, l)
  /\ line' = StripComment(l)
  /\ TNPPass(ParseLineTNP(airspaces, b, 1, temp_area, ignore))

\* a line of a TNP file
TNPLine ==
  /\ CanRead
  /\ \E l \in Families[family], residue \in Residues :
       TNPRead(l, StripComment(l) \o NUL \o residue)

\* EndOfInput with the final area inserted whatever the Waiting flag says
EndOfInput_Always ==
  /\ pc = "loop"
  /\ pc' = "done"
  /\ IF filetype = "AFT_UNKNOWN"
     THEN /\ error' = "Unknown airspace filetype"
          /\ result' = "false"
          /\ UNCHANGED airspaces
     ELSE /\ airspaces' = AddPolygon(airspaces, temp_area)
          /\ result' = "true"
          /\ UNCHANGED error
  /\ UNCHANGED <<family, input, LineCount, line, filetype, ignore, temp_area,
                 ret, warned, progress>>

\* lines 859-868: reader.read() returned NULL
EndOfInput ==
  /\ pc = "loop"
  /\ pc' = "done"
  /\ IF filetype = "AFT_UNKNOWN"
     THEN /\ error' = "Unknown airspace filetype"
          /\ result' = "false"
          /\ UNCHANGED airspaces
     ELSE /\ airspaces' = IF ~temp_area.Waiting
                          THEN AddPolygon(airspaces, temp_area)
                          ELSE airspaces
          /\ result' = "true"
          /\ UNCHANGED error
  /\ UNCHANGED <<family, input, LineCount, line, filetype, ignore, temp_area,
                 ret, warned, progress>>

Next ==
  \/ BlankLine
  \/ UndetectedLine
  \/ OpenAirLine
  \/ TNPLine
  \/ EndOfInput

Spec == Init /\ [][Next]_vars

(***************************************************************************)
(* The vocabulary of the properties.  A property reads the lines of the    *)
(* file from input and tells the steps of Parse apart by what they do to   *)
(* input and pc.                                                           *)
(***************************************************************************)
\* the step read a physical line
ReadStep == input' # input

\* the step found the end of the input
EndStep == pc = "loop" /\ pc' = "done" /\ input' = input

\* the step added exactly one airspace at the end of the sink
OneInserted ==
  /\ Len(airspaces') = Len(airspaces) + 1
  /\ SubSeq(airspaces', 1, Len(airspaces)) = airspaces

\* the line has no character before its comment
Blank(l) == string_is_empty(StripComment(l), 1)

\* the first two characters of a line, in upper case
Directive(l) ==
  ToUpper(At(StripComment(l), 1)) \o ToUpper(At(StripComment(l), 2))

\* the line starts with keyword k, in any case
IsKeyword(l, k) == string_after_prefix_ci(StripComment(l), 1, k) # 0

\* a detection condition holds of the line: the prefix INCLUDE= or TYPE=, or
\* AC followed by the end of the line or a space
DialectLine(l) ==
  \/ IsKeyword(l, "INCLUDE=")
  \/ IsKeyword(l, "TYPE=")
  \/ /\ IsKeyword(l, "AC")
     /\ At(StripComment(l), 3) \in {NUL, " "}

\* an OpenAir AC line whose value is well-formed
AcceptedAC(l) ==
  Directive(l) = "AC" /\ value_after_space(StripComment(l), 3) # 0

\* the index of the last line of s that P holds of, 0 when there is none
LastIndex(s, P(_)) ==
  IF \E i \in 1..Len(s) : P(s[i])
  THEN CHOOSE i \in 1..Len(s) :
         P(s[i]) /\ \A j \in (i + 1)..Len(s) : ~P(s[j])
  ELSE 0

\* the lines of s after index i
After(s, i) == SubSeq(s, i + 1, Len(s))

\* what ReadCoords makes of the value of a DP line
DPCoords(l) ==
  ReadCoords(StripComment(l), value_after_space(StripComment(l), 3), ZeroPoint)

\* a DP line that parses
GoodDP(l) ==
  /\ Directive(l) = "DP"
  /\ value_after_space(StripComment(l), 3) # 0
  /\ DPCoords(l).ok

\* the points of the DP lines of s that parse, in line order
DPPoints(s) ==
  [i \in 1..Len(SelectSeq(s, GoodDP)) |-> DPCoords(SelectSeq(s, GoodDP)[i]).point]

\* an OpenAir line that ends with reset(): an accepted AC line or a DC line
ResetLine(l) == AcceptedAC(l) \/ Directive(l) = "DC"

\* an OpenAir V X= line, and what ReadCoords makes of its value
CentreLine(l) ==
  /\ ToUpper(At(StripComment(l), 1)) = "V"
  /\ string_after_prefix_ci(StripComment(l), 3, "X=") # 0

CentreCoords(l) == ReadCoords(StripComment(l), 5, ZeroPoint)

\* the V X= lines of the pending record: those after its last reset
CentreLines(s) == SelectSeq(After(s, LastIndex(s, ResetLine)), CentreLine)

(***************************************************************************)
(* C1.  An input in which no line satisfies a dialect detection condition  *)
(* makes Parse return failure with the unknown-file-type error set, and    *)
(* the sink holds no airspace.                                             *)
(***************************************************************************)
C1_UnknownFileType ==
  (pc = "done" /\ \A i \in 1..Len(input) : ~DialectLine(input[i]))
    => /\ result = "false"
       /\ error = "Unknown airspace filetype"
       /\ airspaces = << >>

\* Parse has returned on a file of three or more lines, one of them not
\* blank, none of them a dialect line
C1_Witness ==
  /\ pc = "done"
  /\ Len(input) >= 3
  /\ \E i \in 1..Len(input) : ~Blank(input[i])
  /\ \A i \in 1..Len(input) : ~DialectLine(input[i])
  /\ error = "Unknown airspace filetype"

(***************************************************************************)
(* C2.  In an OpenAir file, a record that starts at an accepted AC line,   *)
(* holds n >= 1 DP lines that parse and no DC, DA or DB line, and ends at  *)
(* the next accepted AC line or at the end of the input, adds exactly one  *)
(* Polygon at the end of the sink: its vertices are those n points in line *)
(* order and its class is the one parsed from the record's AC line.        *)
(***************************************************************************)
C2_PolygonRecord ==
  [][ ( /\ filetype = "AFT_OPENAIR"
        /\ EndStep \/ (ReadStep /\ AcceptedAC(input'[Len(input')]))
        /\ LastIndex(input, AcceptedAC) # 0
        /\ \A i \in (LastIndex(input, AcceptedAC) + 1)..Len(input) :
             Directive(input[i]) \notin {"DC", "DA", "DB"}
        /\ Len(DPPoints(After(input, LastIndex(input, AcceptedAC)))) >= 1 )
      => /\ OneInserted
         /\ airspaces'[Len(airspaces')].shape = "Polygon"
         /\ airspaces'[Len(airspaces')].points
              = DPPoints(After(input, LastIndex(input, AcceptedAC)))
         /\ airspaces'[Len(airspaces')].Type
              = ParseType(StripComment(input[LastIndex(input, AcceptedAC)]),
                          value_after_space(
                            StripComment(input[LastIndex(input, AcceptedAC)]),
                            3))
    ]_vars

\* Parse has returned success on an OpenAir file of two records with points:
\* the sink holds their two polygons, of different classes
C2_Witness ==
  /\ pc = "done"
  /\ result = "true"
  /\ filetype = "AFT_OPENAIR"
  /\ Len(airspaces) = 2
  /\ \A i \in 1..2 : /\ airspaces[i].shape = "Polygon"
                     /\ Len(airspaces[i].points) >= 1
  /\ airspaces[1].Type # airspaces[2].Type
  /\ airspaces[1].points # airspaces[2].points

(***************************************************************************)
(* C3.  An OpenAir DC line adds exactly one Circle: its radius is the      *)
(* value of the DC line and its centre is the centre of the pending        *)
(* record, which is the point of the record's last V X= line when that     *)
(* line parsed.  The DC line then resets the pending record: no vertices,  *)
(* the Waiting flag set.  A record that DC has ended adds no Polygon at    *)
(* the next accepted AC line or at the end of the input.                   *)
(***************************************************************************)
C3_Circle ==
  [][ /\ ( filetype = "AFT_OPENAIR" /\ ReadStep
           /\ Directive(input'[Len(input')]) = "DC" )
         => /\ OneInserted
            /\ airspaces'[Len(airspaces')].shape = "Circle"
            /\ airspaces'[Len(airspaces')].Radius
                 = ToSysUnit_NauticalMiles(
                     tcstod(StripComment(input'[Len(input')]), 3).val)
            /\ airspaces'[Len(airspaces')].Center = temp_area.Center
            /\ ( /\ CentreLines(input) # << >>
                 /\ CentreCoords(CentreLines(input)[Len(CentreLines(input))]).ok )
               => airspaces'[Len(airspaces')].Center
                    = CentreCoords(
                        CentreLines(input)[Len(CentreLines(input))]).point
            /\ temp_area'.points = << >>
            /\ temp_area'.Waiting
      /\ ( /\ filetype = "AFT_OPENAIR"
           /\ EndStep \/ (ReadStep /\ AcceptedAC(input'[Len(input')]))
           /\ LastIndex(input, ResetLine) # 0
           /\ Directive(input[LastIndex(input, ResetLine)]) = "DC" )
         => airspaces' = airspaces
    ]_vars

\* Parse has returned success on an OpenAir file that ends with a DC line
\* after a V X= line: the sink holds the circle and nothing else
C3_Witness ==
  /\ pc = "done"
  /\ result = "true"
  /\ filetype = "AFT_OPENAIR"
  /\ Directive(input[Len(input)]) = "DC"
  /\ CentreLines(SubSeq(input, 1, Len(input) - 1)) # << >>
  /\ Len(airspaces) = 1
  /\ airspaces[1].shape = "Circle"
  /\ airspaces[1].Center # ZeroPoint
  /\ airspaces[1].Radius > 0

(***************************************************************************)
(* C4.  In a TNP file an INCLUDE= line is always processed: it returns     *)
(* success, YES clears the ignore flag, NO sets it, and any other value    *)
(* leaves it as it is.  While the flag is set, every other line leaves the *)
(* sink, the pending record and the flag unchanged and does not fail.      *)
(***************************************************************************)
C4_Ignore ==
  [][ (ReadStep /\ filetype' = "AFT_TNP")
      => IF IsKeyword(input'[Len(input')], "INCLUDE=")
         THEN /\ ret' = "true"
              /\ ignore' =
                   IF tcsicmp0(StripComment(input'[Len(input')]), 9, "YES")
                     THEN FALSE
                   ELSE IF tcsicmp0(StripComment(input'[Len(input')]), 9, "NO")
                     THEN TRUE
                   ELSE ignore
         ELSE ignore
              => /\ ret' # "false"
                 /\ pc' = "loop"
                 /\ airspaces' = airspaces
                 /\ temp_area' = temp_area
                 /\ ignore' = ignore
    ]_vars

\* a CIRCLE line that cannot be parsed has returned success while the flag
\* is set, with a record pending that already has a point
C4_Witness ==
  /\ ignore
  /\ filetype = "AFT_TNP"
  /\ line = "CIRCLE RADIUS=5"
  /\ ret = "true"
  /\ temp_area.points # << >>
  /\ ~temp_area.Waiting

(***************************************************************************)
(* C5.  When a line parser returns failure, ShowParseWarning is called     *)
(* once, with the number of the physical line (blank and comment-only      *)
(* lines count, the first line is 1).  On abort Parse returns failure at   *)
(* once and leaves the sink as it is; on continue it goes on with the next *)
(* line.  A line that does not fail gives no warning, and nothing happens  *)
(* after Parse has returned.                                               *)
(***************************************************************************)
C5_Warning ==
  [][ /\ pc # "done"
      /\ (ReadStep /\ ret' = "false")
         => /\ Len(warned') = Len(warned) + 1
            /\ SubSeq(warned', 1, Len(warned)) = warned
            /\ warned'[Len(warned')].line = Len(input')
            /\ IF warned'[Len(warned')].continue
               THEN /\ pc' = "loop"
                    /\ LineCount' = Len(input') + 1
                    /\ result' = "none"
               ELSE /\ pc' = "done"
                    /\ result' = "false"
                    /\ airspaces' = airspaces
      /\ (ReadStep /\ ret' # "false") => (warned' = warned /\ pc' = "loop")
    ]_vars

\* Parse has returned failure on an abort at a line that follows a blank
\* line, with an airspace already in the sink
C5_Witness ==
  /\ pc = "done"
  /\ result = "false"
  /\ warned # << >>
  /\ ~warned[Len(warned)].continue
  /\ warned[Len(warned)].line = Len(input)
  /\ \E i \in 1..(Len(input) - 1) : Blank(input[i])
  /\ airspaces # << >>

(***************************************************************************)
(* C6.  At the end of the input, with a dialect detected and no abort,     *)
(* Parse returns success; it adds exactly one Polygon, made of the pending *)
(* vertices, if the Waiting flag is clear, and nothing if it is set.       *)
(***************************************************************************)
C6_EndOfInput ==
  [][ (EndStep /\ filetype # "AFT_UNKNOWN")
      => /\ result' = "true"
         /\ IF ~temp_area.Waiting
            THEN /\ OneInserted
                 /\ airspaces'[Len(airspaces')].shape = "Polygon"
                 /\ airspaces'[Len(airspaces')].points = temp_area.points
            ELSE airspaces' = airspaces
    ]_vars

\* Parse has returned success and the last airspace of the sink is the
\* polygon of the record that was pending, which has points
C6_Witness ==
  /\ pc = "done"
  /\ result = "true"
  /\ ~temp_area.Waiting
  /\ temp_area.points # << >>
  /\ airspaces # << >>
  /\ airspaces[Len(airspaces)].shape = "Polygon"
  /\ airspaces[Len(airspaces)].points = temp_area.points
  /\ warned = << >>

(***************************************************************************)
(* C7.  A step that changes the sink adds exactly one airspace at its end, *)
(* and it is the end of the input, an accepted AC line or a DC line of an  *)
(* OpenAir file, or a TYPE= line or a CIRCLE line that parsed of a TNP     *)
(* file.  Every other line, failing or not, leaves the sink as it is.      *)
(***************************************************************************)
C7_SinkChanges ==
  [][ airspaces' # airspaces
      => /\ OneInserted
         /\ \/ EndStep
            \/ /\ ReadStep
               /\ filetype' = "AFT_OPENAIR"
               /\ \/ AcceptedAC(input'[Len(input')])
                  \/ Directive(input'[Len(input')]) = "DC"
            \/ /\ ReadStep
               /\ filetype' = "AFT_TNP"
               /\ \/ IsKeyword(input'[Len(input')], "TYPE=")
                  \/ /\ IsKeyword(input'[Len(input')], "CIRCLE ")
                     /\ ret' = "true"
    ]_vars

\* a line has failed in a TNP file whose sink holds a circle and a polygon
C7_Witness ==
  /\ filetype = "AFT_TNP"
  /\ ret = "false"
  /\ Len(airspaces) = 2
  /\ {airspaces[i].shape : i \in 1..2} = {"Circle", "Polygon"}

(***************************************************************************)
(* C8.  No airspace is added to the sink while the Waiting flag of the     *)
(* pending record is set: every step that adds one starts with the flag    *)
(* clear.                                                                  *)
(***************************************************************************)
C8_NoInsertWhileWaiting ==
  [][ airspaces' # airspaces => ~temp_area.Waiting ]_vars

(***************************************************************************)
(* C9.  Every Polygon of the sink has a vertex list of at least one point. *)
(***************************************************************************)
C9_PolygonHasPoint ==
  \A i \in 1..Len(airspaces) :
    airspaces[i].shape = "Polygon" => Len(airspaces[i].points) >= 1

(***************************************************************************)
(* C10.  After each completed record (an accepted AC line or a DC line of  *)
(* an OpenAir file, a TYPE= line of a TNP file that is not ignored) the    *)
(* pending record is back at its defaults in every field but the class and *)
(* the Waiting flag that the new record sets: name, base and top included. *)
(***************************************************************************)
C10_ResetToDefaults ==
  [][ ( /\ ReadStep
        /\ \/ /\ filetype' = "AFT_OPENAIR"
              /\ ResetLine(input'[Len(input')])
           \/ /\ filetype' = "AFT_TNP"
              /\ ~ignore
              /\ IsKeyword(input'[Len(input')], "TYPE=") )
      => temp_area' = [NewTempAirspace EXCEPT !.Type = temp_area'.Type,
                                              !.Waiting = temp_area'.Waiting]
    ]_vars

(***************************************************************************)
(* C11.  Every airspace of the sink has a base altitude and a top altitude *)
(* whose datum is not Undefined: a record for which no base or top line    *)
(* was read is emitted with the datum MSL for that altitude.               *)
(***************************************************************************)
C11_DatumDefined ==
  \A i \in 1..Len(airspaces) :
    /\ airspaces[i].Base.type # "UNDEFINED"
    /\ airspaces[i].Top.type # "UNDEFINED"


\* where the digits of a flight-level text at p start: after FL, or after
\* FL and one "=" or space
FLDigits(b, p) == IF At(b, p + 2) \in {"=", " "} THEN p + 3 ELSE p + 2

\* the text at p is FL, FL= or FL and a space, then decimal digits to the
\* end of the string
FLText(b, p) ==
  /\ tcsnicmp0(b, p, "FL")
  /\ IsDigit(At(b, FLDigits(b, p)))
  /\ At(b, DigitsEnd(b, FLDigits(b, p))) = NUL

\* the value of those digits, in hundredths
FLValue(b, p) ==
  DigitsVal(b, FLDigits(b, p), DigitsEnd(b, FLDigits(b, p))) * 100

(***************************************************************************)
(* C12.  An altitude text made of FL and decimal digits of value N, with   *)
(* nothing, "=" or a space between them, yields the datum FL and the       *)
(* flight level N: stated of the AH line of an OpenAir file, which hands   *)
(* its value to ReadAltitude.                                              *)
(***************************************************************************)
C12_FlightLevel ==
  [][ ( /\ ReadStep
        /\ filetype' = "AFT_OPENAIR"
        /\ Directive(input'[Len(input')]) = "AH"
        /\ value_after_space(StripComment(input'[Len(input')]), 3) # 0
        /\ FLText(StripComment(input'[Len(input')]),
                  value_after_space(StripComment(input'[Len(input')]), 3)) )
      => /\ temp_area'.Top.type = "FL"
         /\ temp_area'.Top.flight_level
              = FLValue(StripComment(input'[Len(input')]),
                        value_after_space(StripComment(input'[Len(input')]), 3))
    ]_vars


\* lines 362-370: the bearings at which CalculateSector projects a vertex,
\* in the order it appends them
RECURSIVE SectorBearings(_, _, _)
SectorBearings(StartBearing, EndBearing, BearingStep) ==
  IF magnitude_degrees(EndBearing - StartBearing) > 750
  THEN <<StartBearing>>
       \o SectorBearings(as_bearing(StartBearing + BearingStep), EndBearing,
                         BearingStep)
  ELSE <<EndBearing>>

\* lines 356-358: the radius, start bearing and end bearing of a DA line
SectorRadius(b) == ToSysUnit_NauticalMiles(tcstod(b, 3).val)

SectorStart(b) == as_bearing(tcstod(b, tcstod(b, 3).end + 1).val)

SectorEnd(b) ==
  as_bearing(tcstod(b, tcstod(b, tcstod(b, 3).end + 1).end + 1).val)

\* the angle between two bearings, at most 180 degrees
AngleBetween(a, c) ==
  IF Abs(a - c) % 36000 <= 18000
  THEN Abs(a - c) % 36000 ELSE 36000 - (Abs(a - c) % 36000)

\* the vertices of s at the bearings bs around the centre of record t
Project(bs, t, Radius) ==
  [i \in 1..Len(bs) |-> FindLatitudeLongitude(t.Center, bs[i], Radius)]

(***************************************************************************)
(* C13.  The vertices a DA line appends lie at bearings from the centre of *)
(* which each consecutive pair differs by at most 5 degrees, and the last  *)
(* is the point at exactly the end bearing, for every start bearing, end   *)
(* bearing and rotation sign.                                              *)
(***************************************************************************)
C13_SectorSteps ==
  [][ ( /\ ReadStep
        /\ filetype' = "AFT_OPENAIR"
        /\ Directive(input'[Len(input')]) = "DA" )
      => \E bs \in { SectorBearings(SectorStart(StripComment(input'[Len(input')])),
                                    SectorEnd(StripComment(input'[Len(input')])),
                                    temp_area.Rotation * 500) } :
           /\ temp_area'.points
                = temp_area.points
                  \o Project(bs, temp_area,
                             SectorRadius(StripComment(input'[Len(input')])))
           /\ bs[Len(bs)] = SectorEnd(StripComment(input'[Len(input')]))
           /\ \A i \in 1..(Len(bs) - 1) : AngleBetween(bs[i], bs[i + 1]) <= 500
    ]_vars


(***************************************************************************)
(* ParseCoordsTNP over a grid of coordinates.  The file is a TNP file      *)
(* whose first line, TYPE=R, has been read; its second line is a POINT=    *)
(* line whose two compact groups range over PointLines.                    *)
(***************************************************************************)
\* n as two and as three decimal digits
TwoDigits(n) ==
  SubSeq(Digits, (n \div 10) + 1, (n \div 10) + 1)
  \o SubSeq(Digits, (n % 10) + 1, (n % 10) + 1)

ThreeDigits(n) ==
  SubSeq(Digits, (n \div 100) + 1, (n \div 100) + 1) \o TwoDigits(n % 100)

LatitudeGroups ==
  { h \o TwoDigits(d) \o TwoDigits(m) \o TwoDigits(s) :
      h \in {"N", "S"}, d \in {0, 54, 89}, m \in {0, 59}, s \in {0, 7, 59} }

LongitudeGroups ==
  { h \o ThreeDigits(d) \o TwoDigits(m) \o TwoDigits(s) :
      h \in {"E", "W", "w"}, d \in {0, 105, 179}, m \in {0, 59}, s \in {0, 59} }

PointLines ==
  { "POINT=" \o lat \o sep \o lon :
      lat \in LatitudeGroups, sep \in {" ", ""}, lon \in LongitudeGroups }

\* the state of Parse after the line TYPE=R of a TNP file
InitPoint ==
  /\ family = 4
  /\ input = <<"TYPE=R">>
  /\ pc = "loop"
  /\ LineCount = 2
  /\ line = "TYPE=R"
  /\ filetype = "AFT_TNP"
  /\ ignore = FALSE
  /\ temp_area = ParseLineTNP(<< >>, "TYPE=R", 1, NewTempAirspace, FALSE).temp_area
  /\ airspaces = << >>
  /\ ret = "true"
  /\ warned = << >>
  /\ progress = 0
  /\ error = ""
  /\ result = "none"

\* the second line of the file is read: a POINT= line of the grid
PointLine ==
  /\ CanRead
  /\ Len(input) = 1
  /\ \E l \in PointLines, residue \in Residues :
       TNPRead(l, l \o NUL \o residue)

SpecPoint == InitPoint /\ [][PointLine]_vars

\* the value of the n digits of b that start at p
Num(b, p, n) == DigitsVal(b, p, p + n)

\* where the longitude group of a POINT= line starts: after the latitude
\* group and one optional space
LongitudeAt(b) == IF At(b, 14) = " " THEN 15 ELSE 14

\* the arc seconds of the digit value v decomposed as the claim says
Decomposed(v) ==
  (v \div 10000) * 3600 + ((v % 10000) \div 100) * 60 + (v % 100)

(***************************************************************************)
(* C14.  For a compact group of digit value v (latitude DDMMSS, longitude  *)
(* DDDMMSS, minutes and seconds below 60) ParseCoordsTNP takes v div 10000 *)
(* as the degrees, (v mod 10000) div 100 as the minutes and v mod 100 as   *)
(* the seconds, and the axis is negative exactly when the hemisphere       *)
(* letter is S (latitude) or W (longitude).                                *)
(***************************************************************************)
C14_CompactCoords ==
  [][ ReadStep
      => /\ Len(temp_area'.points) = Len(temp_area.points) + 1
         /\ temp_area'.points[Len(temp_area'.points)].Latitude
              = Negate(At(line', 7) \in {"S", "s"},
                       Decomposed(Num(line', 8, 6)))
         /\ temp_area'.points[Len(temp_area'.points)].Longitude
              = Negate(At(line', LongitudeAt(line')) \in {"W", "w"},
                       Decomposed(Num(line', LongitudeAt(line') + 1, 7)))
    ]_vars

\* the point 54:59:59 S 105:59:59 W has been appended
C14_Witness ==
  /\ Len(input) = 2
  /\ input[2] = "POINT=S545959 W1055959"
  /\ ret = "true"
  /\ temp_area.points
       = << [Latitude |-> -(54 * 3600 + 59 * 60 + 59),
             Longitude |-> -(105 * 3600 + 59 * 60 + 59)] >>


(***************************************************************************)
(* C15: coordinate failures of the OpenAir DP and DB directives            *)
(***************************************************************************)

\* the two coordinates of a DB line: the text after "DB " and the text after
\* the comma
ArcStart(l) == ReadCoords(StripComment(l), 4, ZeroPoint)

ArcEnd(l) ==
  ReadCoords(StripComment(l), tcschr(StripComment(l), 1, ",") + 1, ZeroPoint)

\* a DP line whose coordinates do not parse
BadDP(l) ==
  /\ Directive(l) = "DP"
  /\ value_after_space(StripComment(l), 3) # 0
  /\ ~DPCoords(l).ok

\* a DB line one of whose coordinates does not parse
BadDB(l) ==
  /\ Directive(l) = "DB"
  /\ \/ ~ArcStart(l).ok
     \/ tcschr(StripComment(l), 1, ",") = 0
     \/ ~ArcEnd(l).ok

\* C15: in an OpenAir file a DP line whose coordinates cannot be parsed, and
\* a DB line either of whose coordinates cannot be parsed, makes the line
\* parser return failure and appends no vertex to the pending record.
C15_CoordinateFailure ==
  [][ (/\ ReadStep
       /\ filetype = "AFT_OPENAIR"
       /\ BadDP(line') \/ BadDB(line'))
      => /\ ret' = "false"
         /\ temp_area'.points = temp_area.points ]_vars


(***************************************************************************)
(* C16: a TNP record that ends with a CIRCLE line                          *)
(***************************************************************************)

\* a TNP line that only sets a field of the pending record
MetadataLine(l) ==
  \E k \in {"TITLE=", "CLASS=", "TOPS=", "BASE=", "RADIO=", "ACTIVE="} :
    IsKeyword(l, k)

\* the file is one TNP record: a TYPE= line, metadata lines and one CIRCLE
\* line at the end, every line parsed without a warning
CircleRecord(s) ==
  /\ Len(s) >= 2
  /\ IsKeyword(s[1], "TYPE=")
  /\ \A i \in 2..(Len(s) - 1) : MetadataLine(s[i])
  /\ IsKeyword(s[Len(s)], "CIRCLE ")

\* C16: when Parse has returned on a TNP file that consists of a TYPE= line,
\* metadata lines and one successfully parsed CIRCLE line, the sink holds
\* exactly one airspace, the Circle, and no Polygon was added at the end of
\* the input.
C16_CircleRecord ==
  (/\ pc = "done"
   /\ result = "true"
   /\ CircleRecord(input)
   /\ warned = << >>)
  => /\ Len(airspaces) = 1
     /\ airspaces[1].shape = "Circle"


(***************************************************************************)
(* C17: the lines read while the dialect is undetected                     *)
(***************************************************************************)

\* C17: while no dialect is detected, a line that meets neither detection
\* condition leaves the dialect, the pending record, the sink and the
\* warnings as they were; the first line that meets one sets the dialect
\* and is parsed in the same step by that dialect's line parser, so that a
\* leading AC line with a value, or a leading TYPE= line, ends the wait for
\* a record.
C17_BeforeDetection ==
  [][ (ReadStep /\ filetype = "AFT_UNKNOWN")
      => IF ~DialectLine(input'[Len(input')])
         THEN /\ filetype' = "AFT_UNKNOWN"
              /\ temp_area' = temp_area
              /\ airspaces' = airspaces
              /\ warned' = warned
              /\ ret' = "none"
         ELSE /\ filetype' = IF IsKeyword(input'[Len(input')], "AC")
                             THEN "AFT_OPENAIR" ELSE "AFT_TNP"
              /\ ret' # "none"
              /\ AcceptedAC(input'[Len(input')])
                   => /\ ~temp_area'.Waiting
                      /\ temp_area'.Type
                           = ParseType(StripComment(input'[Len(input')]),
                                       value_after_space(
                                         StripComment(input'[Len(input')]), 3))
              /\ IsKeyword(input'[Len(input')], "TYPE=")
                   => /\ ~temp_area'.Waiting
                      /\ temp_area'.Type
                           = ParseTypeTNP(StripComment(input'[Len(input')]), 6)
    ]_vars

\* a DP line was skipped before the dialect was known and the AC line after
\* it started the first record: no vertex, no airspace, no warning
C17_Witness ==
  /\ input = <<"DP 1 N 2 E", "AC Q">>
  /\ filetype = "AFT_OPENAIR"
  /\ ret = "true"
  /\ ~temp_area.Waiting
  /\ temp_area.Type = "DANGER"
  /\ temp_area.points = << >>
  /\ airspaces = << >>
  /\ warned = << >>


(***************************************************************************)
(* C18: the dialect is detected once                                       *)
(***************************************************************************)

\* the step's effect on the sink, the pending record and the ignore flag is
\* the outcome r of a line parser
Dispatched(r, ignored) ==
  /\ airspaces' = r.db
  /\ temp_area' = r.temp_area
  /\ ignore' = ignored
  /\ ret' = IF r.ret THEN "true" ELSE "false"

\* C18: once a dialect is detected it never changes, so the only changes are
\* from undetected to OpenAir and from undetected to TNP; and every
\* non-blank line read after detection is parsed by the detected dialect's
\* line parser alone, whatever detection condition the line meets: a TYPE=
\* or INCLUDE= line of an OpenAir file and an AC line of a TNP file change
\* nothing and succeed.
C18_DialectFixed ==
  [][ /\ filetype # "AFT_UNKNOWN" => filetype' = filetype
      /\ (ReadStep /\ filetype = "AFT_OPENAIR" /\ ~Blank(input'[Len(input')]))
           => \E residue \in Residues :
                Dispatched(ParseLine(airspaces, line' \o NUL \o residue, 1,
                                     temp_area),
                           ignore)
      /\ (ReadStep /\ filetype = "AFT_TNP" /\ ~Blank(input'[Len(input')]))
           => \E residue \in Residues :
                Dispatched(ParseLineTNP(airspaces, line' \o NUL \o residue, 1,
                                        temp_area, ignore),
                           ParseLineTNP(airspaces, line' \o NUL \o residue, 1,
                                        temp_area, ignore).ignore)
      /\ ( /\ ReadStep
           /\ \/ /\ filetype = "AFT_OPENAIR"
                 /\ \/ IsKeyword(input'[Len(input')], "TYPE=")
                    \/ IsKeyword(input'[Len(input')], "INCLUDE=")
              \/ /\ filetype = "AFT_TNP"
                 /\ IsKeyword(input'[Len(input')], "AC")
                 /\ ~IsKeyword(input'[Len(input')], "ACTIVE=") )
           => /\ UNCHANGED <<temp_area, airspaces, ignore, warned>>
              /\ ret' = "true"
    ]_vars

\* an OpenAir file whose second line is a TYPE= line: the dialect is still
\* OpenAir and the record that the AC line started is untouched
C18_Witness ==
  /\ input = <<"AC", "TYPE=R">>
  /\ filetype = "AFT_OPENAIR"
  /\ ret = "true"
  /\ ~temp_area.Waiting
  /\ temp_area.Type = "OTHER"
  /\ airspaces = << >>


(***************************************************************************)
(* C19: the TNP CLASS= directive                                           *)
(***************************************************************************)

\* C19: a CLASS= line of a TNP file changes nothing of the pending record
\* but its type, and the type only when it is OTHER before the line, to the
\* class the line names; a type other than OTHER is left as it is.
C19_ClassFallback ==
  [][ (ReadStep /\ filetype = "AFT_TNP" /\ IsKeyword(line', "CLASS="))
      => /\ temp_area.Type # "OTHER" => temp_area' = temp_area
         /\ (temp_area.Type = "OTHER" /\ ~ignore)
              => temp_area'
                   = [temp_area EXCEPT !.Type = ParseClassTNP(line', 7)]
         /\ airspaces' = airspaces
         /\ ret' = "true"
    ]_vars

\* TYPE=R set the type and the CLASS=A line after it left it alone
C19_Witness ==
  /\ input = <<"TYPE=R", "CLASS=A">>
  /\ filetype = "AFT_TNP"
  /\ ret = "true"
  /\ temp_area.Type = "RESTRICT"


(***************************************************************************)
(* C20: the TNP CLOCKWISE and ANTI-CLOCKWISE directives                    *)
(***************************************************************************)

\* the position after the first occurrence of the text k in the line l, 0
\* when l does not contain k
FieldOf(l, k) ==
  IF \E i \in 1..(Len(l) - Len(k) + 1) : SubSeq(l, i, i + Len(k) - 1) = k
  THEN Len(k) + CHOOSE i \in 1..(Len(l) - Len(k) + 1) :
                  /\ SubSeq(l, i, i + Len(k) - 1) = k
                  /\ \A j \in 1..(i - 1) : SubSeq(l, j, j + Len(k) - 1) # k
  ELSE 0

\* a TNP arc line and its direction of rotation
ArcLine(l) == IsKeyword(l, "CLOCKWISE ") \/ IsKeyword(l, "ANTI-CLOCKWISE ")

ArcRotation(l) == IF IsKeyword(l, "CLOCKWISE ") THEN 1 ELSE -1

\* the arc line has its RADIUS=, CENTRE= and TO= fields, in that order and
\* one space apart
WellFormedArc(l) ==
  /\ FieldOf(l, " RADIUS=") # 0
  /\ FieldOf(l, " CENTRE=") > FieldOf(l, " RADIUS=")
  /\ FieldOf(l, " TO=") > FieldOf(l, " CENTRE=")

\* C20: a CLOCKWISE or ANTI-CLOCKWISE line of a TNP file read while the
\* pending record has no vertex returns failure and appends no vertex; read
\* while the record has a vertex, with well-formed CENTRE= and TO= fields,
\* it returns success, keeps the vertices there are, and appends an arc
\* about the CENTRE= point that starts at the last of them and ends at the
\* TO= point.
C20_ArcStart ==
  [][ (ReadStep /\ filetype = "AFT_TNP" /\ ~ignore /\ ArcLine(line'))
      => IF temp_area.points = << >>
         THEN /\ ret' = "false"
              /\ temp_area'.points = << >>
         ELSE WellFormedArc(line')
              => /\ ret' = "true"
                 /\ SubSeq(temp_area'.points, 1, Len(temp_area.points))
                      = temp_area.points
                 /\ temp_area'.points[Len(temp_area.points) + 1]
                      = temp_area.points[Len(temp_area.points)]
                 /\ temp_area'.points[Len(temp_area'.points)]
                      = ParseCoordsTNP(line', FieldOf(line', " TO="))
                 /\ temp_area'
                      = AddArc(temp_area.points[Len(temp_area.points)],
                               ParseCoordsTNP(line', FieldOf(line', " TO=")),
                               [temp_area EXCEPT
                                  !.Rotation = ArcRotation(line'),
                                  !.Center = ParseCoordsTNP(
                                     line', FieldOf(line', " CENTRE="))])
    ]_vars

\* a record with one POINT= vertex, a CLOCKWISE arc from it and an
\* ANTI-CLOCKWISE arc from the end of the first arc, without a warning
C20_Witness ==
  /\ Len(input) = 4
  /\ IsKeyword(input[2], "POINT=")
  /\ IsKeyword(input[3], "CLOCKWISE ")
  /\ IsKeyword(input[4], "ANTI-CLOCKWISE ")
  /\ WellFormedArc(input[3])
  /\ WellFormedArc(input[4])
  /\ ret = "true"
  /\ warned = << >>
  /\ Len(temp_area.points) > 4
  /\ temp_area.points[1] # temp_area.points[Len(temp_area.points)]


(***************************************************************************)
(* C21: the vertices AddArc appends                                        *)
(***************************************************************************)

\* the step read a line that reaches AddArc: an OpenAir DB line with two
\* coordinates that parse, or a TNP arc line with well-formed fields read
\* when the record has a vertex
ArcStep ==
  /\ ReadStep
  /\ \/ filetype = "AFT_OPENAIR" /\ Directive(line') = "DB" /\ ~BadDB(line')
     \/ /\ filetype = "AFT_TNP" /\ ~ignore
        /\ ArcLine(line') /\ WellFormedArc(line')
        /\ temp_area.points # << >>

\* the start and the end point the step hands to AddArc
ArcFrom ==
  IF filetype = "AFT_OPENAIR" THEN ArcStart(line').point
  ELSE temp_area.points[Len(temp_area.points)]

ArcTo ==
  IF filetype = "AFT_OPENAIR" THEN ArcEnd(line').point
  ELSE ParseCoordsTNP(line', FieldOf(line', " TO="))

\* C21: AddArc, reached from an OpenAir DB line or a TNP arc line, appends
\* at least two vertices to the pending record and keeps the vertices that
\* were there as a prefix; the first vertex appended is the start point as
\* given, the last is the end point as given, and the k-th between them is
\* the point projected from the centre at the start bearing plus k steps of
\* 5 degrees in the direction of rotation, at the distance of the start
\* point.
C21_ArcVertices ==
  [][ ArcStep
      => /\ Len(temp_area'.points) >= Len(temp_area.points) + 2
         /\ SubSeq(temp_area'.points, 1, Len(temp_area.points))
              = temp_area.points
         /\ temp_area'.points[Len(temp_area.points) + 1] = ArcFrom
         /\ temp_area'.points[Len(temp_area'.points)] = ArcTo
         /\ \A k \in 1..(Len(temp_area'.points) - Len(temp_area.points) - 2) :
              temp_area'.points[Len(temp_area.points) + 1 + k]
                = FindLatitudeLongitude(
                    temp_area'.Center,
                    as_bearing(Bearing(temp_area'.Center, ArcFrom)
                               + k * temp_area'.Rotation * 500),
                    Distance(temp_area'.Center, ArcFrom))
    ]_vars

\* an OpenAir DB line after a V X= line has appended its start point, more
\* than one projected point and its end point
C21_Witness ==
  /\ Len(input) >= 3
  /\ input[Len(input)] = "DB 1 N 3 E,2 N 2 E"
  /\ input[Len(input) - 1] = "V x=1 N 2 E"
  /\ filetype = "AFT_OPENAIR"
  /\ ret = "true"
  /\ Len(temp_area.points) > 3
  /\ temp_area.points[1] = ArcStart("DB 1 N 3 E,2 N 2 E").point
  /\ temp_area.points[Len(temp_area.points)]
       = ArcEnd("DB 1 N 3 E,2 N 2 E").point


(***************************************************************************)
(* The tessellators over a grid of bearings.  The file is an OpenAir file  *)
(* whose first line, AC CTR, has been read; a V D= line may follow, and    *)
(* then a DA line or a DB line whose bearings range over a grid.           *)
(***************************************************************************)
\* the bearings are half a turn apart, more or less, so that either direction
\* of rotation takes between 25 and 45 steps and both wrap at 0 / 360 degrees
SectorStarts == {"150", "170", "180", "182.5", "200"}

SectorEnds == {"0", "7.51", "20", "330", "352.5", "359.99"}

SectorLines ==
  { "DA 10," \o s \o "," \o e : s \in SectorStarts, e \in SectorEnds }

ArcStarts == {"1 N 0 E", "1 N 1 E", "2 N 1 E"}

ArcEnds == {"1 S 0 E", "1 S 1 W", "2 S 1 W"}

ArcLines == { "DB " \o s \o "," \o e : s \in ArcStarts, e \in ArcEnds }

InitBearings ==
  /\ family = 3
  /\ input = <<"AC CTR">>
  /\ pc = "loop"
  /\ LineCount = 2
  /\ line = "AC CTR"
  /\ filetype = "AFT_OPENAIR"
  /\ ignore = FALSE
  /\ temp_area = ParseLine(<< >>, "AC CTR", 1, NewTempAirspace).temp_area
  /\ airspaces = << >>
  /\ ret = "true"
  /\ warned = << >>
  /\ progress = 0
  /\ error = ""
  /\ result = "none"

\* the lines that may follow: a V D= line as the second line, and a DA or
\* DB line, which is the last line of the file
RotationLines == {"V D=-", "V D=+"}

BearingLines ==
  (IF Len(input) = 1 THEN RotationLines ELSE {}) \cup SectorLines \cup ArcLines

BearingLine ==
  /\ CanRead
  /\ Len(input) <= 2
  /\ Directive(input[Len(input)]) \notin {"DA", "DB"}
  /\ \E l \in BearingLines, residue \in Residues :
       OpenAirRead(l, l \o NUL \o residue)

SpecBearings == InitBearings /\ [][BearingLine]_vars

\* the bearing after k steps of 5 degrees from StartBearing in the direction
\* of Rotation, with wrap-around
SteppedBearing(StartBearing, Rotation, k) ==
  as_bearing(StartBearing + k * Rotation * 500)

\* the stepping from StartBearing comes within 7.5 degrees of EndBearing
\* after k steps and not before
StopsAfter(StartBearing, EndBearing, Rotation, k) ==
  /\ magnitude_degrees(EndBearing - SteppedBearing(StartBearing, Rotation, k))
       <= 750
  /\ \A j \in 0..(k - 1) :
       magnitude_degrees(EndBearing - SteppedBearing(StartBearing, Rotation, j))
         > 750

\* bearings over the whole circle, in hundredths of a degree: the ends, the
\* values next to the 7.5 degree margin and values off the 5 degree raster
BearingGrid ==
  {0, 1, 250, 499, 750, 751, 9000, 18000, 26999, 35249, 35250, 35500, 35999}

\* C22: for the start and end bearings of a DA line and of a DB line, and
\* both directions of rotation, the stepping loop ends: there is a number
\* of steps k, at most 72, after which the bearing is within 7.5 degrees of
\* the end bearing for the first time; the line appends one vertex per step
\* together with the end point, which is the last vertex (CalculateSector:
\* k stepped vertices and the point at the end bearing; AddArc: the start
\* point, k stepped vertices and the end point).  The same number of steps
\* exists for every pair of bearings of BearingGrid in the direction a
\* V D= line sets.
C22_LoopTerminates ==
  [][ /\ (ReadStep /\ Directive(line') = "DA")
           => \E k \in 0..72 :
                /\ StopsAfter(SectorStart(line'), SectorEnd(line'),
                              temp_area.Rotation, k)
                /\ Len(temp_area'.points) = Len(temp_area.points) + k + 1
                /\ temp_area'.points[Len(temp_area'.points)]
                     = FindLatitudeLongitude(temp_area.Center,
                                             SectorEnd(line'),
                                             SectorRadius(line'))
      /\ (ReadStep /\ Directive(line') = "DB" /\ ~BadDB(line'))
           => \E k \in 0..72 :
                /\ StopsAfter(Bearing(temp_area.Center, ArcStart(line').point),
                              Bearing(temp_area.Center, ArcEnd(line').point),
                              temp_area.Rotation, k)
                /\ Len(temp_area'.points) = Len(temp_area.points) + k + 2
                /\ temp_area'.points[Len(temp_area'.points)]
                     = ArcEnd(line').point
      /\ (ReadStep /\ line' \in RotationLines)
           => \A StartBearing \in BearingGrid, EndBearing \in BearingGrid :
                \E k \in 0..72 :
                  StopsAfter(StartBearing, EndBearing, temp_area'.Rotation, k)
    ]_vars

\* an anticlockwise sector from 200 to 330 degrees goes the long way round,
\* through 0 degrees: 45 stepped vertices and the vertex at 330 degrees
C22_Witness ==
  /\ input = <<"AC CTR", "V D=-", "DA 10,200,330">>
  /\ ret = "true"
  /\ temp_area.Rotation = -1
  /\ Len(temp_area.points) = 46
  /\ temp_area.points[46]
       = FindLatitudeLongitude(temp_area.Center, 33000, SectorRadius(line))


(***************************************************************************)
(* C23: the scan position of ReadAltitude                                  *)
(***************************************************************************)

\* the positions at which ReadAltitude's for loop tests *p, in order, for
\* the text that starts at p
RECURSIVE ScanPositions(_, _, _, _)
ScanPositions(b, p, Alt, fHasUnit) ==
  IF At(b, p) = NUL THEN <<p>>
  ELSE <<p>> \o ScanPositions(b, AltitudeToken(b, p, Alt, fHasUnit).p + 1,
                              AltitudeToken(b, p, Alt, fHasUnit).Alt,
                              AltitudeToken(b, p, Alt, fHasUnit).fHasUnit)

\* where the altitude text of the line starts under the dialect d, 0 for a
\* line that has none
AltitudeText(d, l) ==
  IF d = "AFT_OPENAIR" /\ Directive(l) \in {"AL", "AH"}
  THEN value_after_space(StripComment(l), 3)
  ELSE IF d = "AFT_TNP" /\ (IsKeyword(l, "TOPS=") \/ IsKeyword(l, "BASE="))
  THEN 6
  ELSE 0

\* the scan of the altitude text of line l: the line is followed by its
\* terminator, at position Len(l) + 1
AltitudeScanOf(d, l) ==
  ScanPositions(StripComment(l) \o NUL, AltitudeText(d, l), DefaultAltitude,
                FALSE)

\* C23: when a line hands an altitude text to ReadAltitude, every position
\* the scan tests is at most the position of the terminator, and the scan
\* ends at the terminator.
C23_ScanInBounds ==
  [][ (ReadStep /\ ~ignore' /\ AltitudeText(filetype', line') # 0)
      => /\ \A i \in 1..Len(AltitudeScanOf(filetype', line')) :
              AltitudeScanOf(filetype', line')[i] <= Len(line') + 1
         /\ AltitudeScanOf(filetype', line')[
              Len(AltitudeScanOf(filetype', line'))] = Len(line') + 1
    ]_vars


(***************************************************************************)
(* ReadAltitude over a grid of altitude texts.  The file is an OpenAir     *)
(* file whose first line, AC R, has been read; its second line is an AL or *)
(* AH line whose value is a number, up to two spaces and a marker, or a    *)
(* marker alone.                                                           *)
(***************************************************************************)
AltitudeNumbers == {"1", "50", "1500", "2500.5"}

AltitudeMarkers ==
  {"GND", "gnd", "Gnd", "AGL", "SFC", "UNL", "unl", "MSL", "FT", "M", "STD"}

AltitudeTexts ==
  { n \o sep \o m : n \in AltitudeNumbers \cup {"", "0"},
                    sep \in {"", " ", "  "}, m \in AltitudeMarkers }

AltitudeLines == { d \o " " \o t : d \in {"AL", "AH"}, t \in AltitudeTexts }

InitAltitude ==
  /\ family = 2
  /\ input = <<"AC R">>
  /\ pc = "loop"
  /\ LineCount = 2
  /\ line = "AC R"
  /\ filetype = "AFT_OPENAIR"
  /\ ignore = FALSE
  /\ temp_area = ParseLine(<< >>, "AC R", 1, NewTempAirspace).temp_area
  /\ airspaces = << >>
  /\ ret = "true"
  /\ warned = << >>
  /\ progress = 0
  /\ error = ""
  /\ result = "none"

AltitudeLine ==
  /\ CanRead
  /\ Len(input) = 1
  /\ \E l \in AltitudeLines, residue \in Residues :
       OpenAirRead(l, l \o NUL \o residue)

SpecAltitude == InitAltitude /\ [][AltitudeLine]_vars

\* the altitude the step assigned: Base for an AL line, Top for an AH line
Assigned ==
  IF Directive(line') = "AL" THEN temp_area'.Base ELSE temp_area'.Top

\* the altitude text of the line, after "AL " or "AH "
TextOf(l) == SubSeq(l, 4, Len(l))

\* the text is a number, spaces or none, and GND in any case
NumberGND(t) ==
  /\ IsDigit(At(t, 1))
  /\ tcstod(t, 1).val > 0
  /\ tcsnicmp0(t, SkipSpaces(t, tcstod(t, 1).end), "GND")
  /\ SkipSpaces(t, tcstod(t, 1).end) + 3 = Len(t) + 1

\* C24: for an altitude text that is a positive number followed by GND,
\* with or without a space between them, ReadAltitude gives datum AGL, the
\* number (taken as feet) as the value above terrain and plain altitude
\* zero; for GND alone it gives datum AGL and the surface sentinel -1 as
\* the value above terrain.
C24_NumberGND ==
  [][ /\ (ReadStep /\ NumberGND(TextOf(line')))
           => /\ Assigned.type = "AGL"
              /\ Assigned.altitude = 0
              /\ Assigned.altitude_above_terrain
                   = ToSysUnit_Feet(tcstod(TextOf(line'), 1).val)
      /\ (ReadStep /\ tcsicmp0(TextOf(line'), 1, "GND"))
           => /\ Assigned.type = "AGL"
              /\ Assigned.altitude = 0
              /\ Assigned.altitude_above_terrain = -100
    ]_vars


(***************************************************************************)
(* C25: the altitude text UNL                                              *)
(***************************************************************************)

\* C25: for the altitude text UNL, in any case, ReadAltitude returns datum
\* MSL, the value above terrain -1 and the plain altitude 50000, neither
\* of them converted from feet.
C25_Unlimited ==
  [][ (ReadStep /\ tcsicmp0(TextOf(line'), 1, "UNL"))
      => /\ Assigned.type = "MSL"
         /\ Assigned.altitude_above_terrain = -100
         /\ Assigned.altitude = 5000000
    ]_vars


(***************************************************************************)
(* ReadCoords over a grid of coordinate texts.  The file is an OpenAir     *)
(* file whose first line, AC R, has been read; its second line is a DP     *)
(* line whose value is a latitude group, a hemisphere letter, a longitude  *)
(* group and a hemisphere letter, one space apart, each of which may be    *)
(* missing.                                                                *)
(***************************************************************************)
LatitudeTexts == {"1", "53:20:41", "53:20.68"}

LongitudeTexts == {"2", "010:24:41", "010:24.68"}

\* a part that is there follows a space
Part(x) == IF x = "" THEN "" ELSE " " \o x

\* the text of the four parts
CoordsOf(la, h1, lo, h2) == la \o Part(h1) \o Part(lo) \o Part(h2)

CoordTexts ==
  { CoordsOf(la, h1, lo, h2) :
      la \in LatitudeTexts \cup {""}, h1 \in {"N", "S", "s", ""},
      lo \in LongitudeTexts \cup {""}, h2 \in {"E", "W", "w", ""} }

\* the texts with digits in both groups and both hemisphere letters
CompleteCoordTexts ==
  { CoordsOf(la, h1, lo, h2) :
      la \in LatitudeTexts, h1 \in {"N", "S", "s"},
      lo \in LongitudeTexts, h2 \in {"E", "W", "w"} }

CoordLines == { "DP " \o t : t \in CoordTexts }

InitCoords ==
  /\ family = 1
  /\ input = <<"AC R">>
  /\ pc = "loop"
  /\ LineCount = 2
  /\ line = "AC R"
  /\ filetype = "AFT_OPENAIR"
  /\ ignore = FALSE
  /\ temp_area = ParseLine(<< >>, "AC R", 1, NewTempAirspace).temp_area
  /\ airspaces = << >>
  /\ ret = "true"
  /\ warned = << >>
  /\ progress = 0
  /\ error = ""
  /\ result = "none"

CoordLine ==
  /\ CanRead
  /\ Len(input) = 1
  /\ \E l \in CoordLines, residue \in Residues :
       OpenAirRead(l, l \o NUL \o residue)

SpecCoords == InitCoords /\ [][CoordLine]_vars

\* C26: ReadCoords, called for the value of a DP line, returns success
\* exactly when both groups have digits and both hemisphere letters are
\* there: with a group without digits or a letter missing the line fails
\* and no vertex is appended.
C26_CoordsComplete ==
  [][ ReadStep
      => IF TextOf(line') \in CompleteCoordTexts
         THEN ret' = "true" /\ Len(temp_area'.points) = 1
         ELSE ret' = "false" /\ temp_area'.points = << >>
    ]_vars


(***************************************************************************)
(* C27: the pending record after a line that fails                         *)
(***************************************************************************)

\* C27: whenever a line parser returns failure for a line, the pending
\* record after the line (vertices, centre, radius, rotation, name, type,
\* altitudes, Waiting flag) equals the pending record before the line, and
\* the sink is unchanged.
C27_FailureKeepsRecord ==
  [][ (ReadStep /\ ret' = "false")
      => /\ temp_area' = temp_area
         /\ airspaces' = airspaces
    ]_vars

=============================================================================
